---- MODULE Spec2Model ----
(***************************************************************************)
(* Verification model of the face-recognition server's control plane:      *)
(* the sliding-window RateLimiter, the round-robin dispatcher              *)
(* (PipeLinesManager), the twin-branch pipeline worker (PipeLine), the     *)
(* decision fuser (ActionDecisionManager_Process) and the WebSocket        *)
(* gateway (Server).  Each subsystem has its own specification; the        *)
(* variables of the other subsystems stay at their initial values.         *)
(***************************************************************************)
EXTENDS Integers, Sequences, FiniteSets, TLC

(***************************************************************************)
(* Python dictionaries: a function whose DOMAIN is the set of keys.        *)
(***************************************************************************)
EmptyMap == [k \in {} |-> 0]

HasKey(m, k) == k \in DOMAIN m

DictGet(m, k, default) == IF k \in DOMAIN m THEN m[k] ELSE default

DictSet(m, k, v) == [x \in (DOMAIN m) \cup {k} |-> IF x = k THEN v ELSE m[x]]

DictPop(m, k) == [x \in (DOMAIN m) \ {k} |-> m[x]]

Max2(a, b) == IF a >= b THEN a ELSE b

(***************************************************************************)
(*                      RateLimiter_service                                *)
(***************************************************************************)
\* Bounds of the rate-limiter model.
NumIds == 2

MaxTime == 2

MaxCalls == 3

MaxCfgClients == 2

WindowSize == 2

MaxCallers == 2

RLIds == 1..NumIds

RLThreads == 1..MaxCallers

VARIABLES
    max_clients,            \* RateLimiter.max_clients
    window_size,            \* RateLimiter.window_size
    client_counts,          \* RateLimiter.client_counts
    client_window_start,    \* RateLimiter.client_window_start
    client_last_seen,       \* RateLimiter.client_last_seen
    now,                    \* wall clock, int(time() * 1000); never below window_size
    callers,                \* threads that call allowRequest
    rl,                     \* per caller: position in allowRequest and its locals
    rl_obs,                 \* per caller: what its last call saw and did
    rl_calls,               \* number of calls started
    admitted,               \* <<client_id, current_time>> of every admission
    sw,                     \* the sweep thread: position and locals
    cleanup_stop,           \* RateLimiter._cleanup_stop is set
    executor_shutdown,      \* RateLimiter.executor._shutdown
    sd                      \* the caller of shutdown: position, calls returned

rlStopVars == <<cleanup_stop, executor_shutdown, sd>>

limiterVars ==
    <<max_clients, window_size, client_counts, client_window_start,
      client_last_seen, now, callers, rl, rl_obs, rl_calls, admitted, sw,
      rlStopVars>>

\* RateLimiterManager and the managers and limiters it has constructed
VARIABLES
    m_instance,             \* RateLimiterManager._instance
    m_rate_limiter,         \* per manager constructed: its _rate_limiter
    m_limiters,             \* number of limiters constructed
    m_stopped,              \* the limiters whose shutdown() was called
    m_since,                \* managers get_instance returned since the last shutdown
    m_last                  \* the last call on the manager and its outcome

mgVars == <<m_instance, m_rate_limiter, m_limiters, m_stopped, m_since, m_last>>

rlVars == <<limiterVars, mgVars>>

\* PipeLinesManager (dispatcher) and the received_clients_data exchange
VARIABLES
    num_pipelines,              \* PipeLinesManager.num_pipelines
    next_pipeline,              \* PipeLinesManager._next_pipeline
    pipeline_message_counts,    \* PipeLinesManager.pipeline_message_counts
    bindings,                   \* <<queue, binding key>> on received_clients_data
    d_consumed,                 \* messages taken from clients_data
    d_identified,               \* of these, the ones carrying a client identifier
    d_last                      \* what the last get_clients_data call did

dispVars == <<num_pipelines, next_pipeline, pipeline_message_counts, bindings,
              d_consumed, d_identified, d_last>>

\* PipeLine (the worker of one pipeline), its two input queues and the two
\* result queues
VARIABLES
    w_routed,                   \* envelopes published to the pipeline so far
    w_ready,                    \* per input queue: the messages ready for delivery
    w_unacked,                  \* per input queue: the delivered, unsettled message
    w_future,                   \* per consumer: state of the submitted handler
    face_pipeline_results,      \* verdicts published to face_pipeline_results
    phone_pipeline_results,     \* verdicts published to phone_pipeline_results
    w_stop,                     \* PipeLine.__STOP
    w_fate,                     \* per envelope and branch: where its delivery ended
    w_failed                    \* the (envelope, branch) whose handler failed

wkQueueVars ==
    <<w_routed, w_ready, w_unacked, w_future, face_pipeline_results,
      phone_pipeline_results, w_stop, w_fate, w_failed>>

\* FaceDetectionRecognition's reference embeddings, the image cache of
\* files_handler and the enrolment image on disk
VARIABLES
    image_content,              \* what <client>/<client>_1.jpg holds
    image_mtime,                \* os.path.getmtime of the image file
    dir_mtime,                  \* os.stat(client_dir).st_mtime
    fs_clock,                   \* the clock of the file system
    ref_embeddings,             \* FaceDetectionRecognition._ref_embeddings
    ref_versions,               \* FaceDetectionRecognition._ref_versions
    client_image_cache,         \* files_handler._client_image_cache
    last_client_mtime,          \* files_handler._last_client_mtime
    ref_last                    \* the last _get_reference_embedding call

refVars == <<image_content, image_mtime, dir_mtime, fs_clock, ref_embeddings,
             ref_versions, client_image_cache, last_client_mtime, ref_last>>

\* The two consumers of a worker on their channel and the executor they share
VARIABLES
    x_routed,                   \* envelopes routed to the pipeline so far
    x_ready,                    \* the ready messages of each input queue
    x_delivered,                \* the envelopes delivered, per branch, in order
    x_unacked,                  \* the deliveries not yet acknowledged
    x_waiting,                  \* the work queue of the ThreadPoolExecutor
    x_running,                  \* the handlers running on its threads
    x_done,                     \* the futures done and not yet finalized
    x_published                 \* the verdicts published, per branch, in order

execVars == <<x_routed, x_ready, x_delivered, x_unacked, x_waiting, x_running,
              x_done, x_published>>

\* The payloads published on clients_data and on the two results queues
VARIABLES
    p_clients_data,             \* the envelopes the gateway published
    p_face_results,             \* the payloads on face_pipeline_results
    p_phone_results             \* the payloads on phone_pipeline_results

payloadVars == <<p_clients_data, p_face_results, p_phone_results>>

wkVars == <<wkQueueVars, refVars, execVars, payloadVars>>

\* ActionDecisionManager_Process (the fuser), its two output queues and the
\* frames in the object store
VARIABLES
    actions,                    \* messages published to the actions queue
    saved_actions,              \* messages published to the saved_actions queue
    frames,                     \* object keys present in the frames bucket
    f_handled,                  \* verdicts consumed so far
    f_last,                     \* what the handler did with the last verdict
    f_now,                      \* datetime.now(timezone.utc) of the fuser
    sa_consumed,                \* saved_actions messages consumed so far
    save_action_queue,          \* SaveAction_Thread.save_action_queue
    action_objects,             \* saved-action objects in the store, by key
    action_files,               \* saved-action files of Data/Actions
    sa_saved                    \* the saved_actions messages that were persisted

fuSaveVars == <<f_now, sa_consumed, save_action_queue, action_objects,
                action_files, sa_saved>>

fuVars == <<actions, saved_actions, frames, f_handled, f_last, fuSaveVars>>

\* Server (the WebSocket gateway), the clients_data queue and the frames it
\* stores
VARIABLES
    connection_semaphore,       \* free permits of Server.connection_semaphore
    registered_clients,         \* Server.registered_clients
    activate_clients,           \* Server.activate_clients
    ws,                         \* Server.ws: client_name -> connection
    gw_conn,                    \* per connection: its handle_connection call
    gw_frames,                  \* frames received so far
    gw_store,                   \* frames stored with store_frame
    clients_data,               \* payloads published to clients_data
    gw_last,                    \* per connection: its last loop iteration
    clients_status,             \* the Clients_status hash of the status store
    gw_status,                  \* per connection: the snapshot of the iteration
    gw_actions,                 \* the messages of the actions queue
    a_published,                \* actions published so far
    a_log                       \* per action: what send_action did with it

gwStatusVars == <<clients_status, gw_status>>

gwActionVars == <<gw_actions, a_published, a_log>>

\* The admin API of the server manager
VARIABLES
    api_last,                   \* the last /client/status/update and its answer
    api_recent                  \* the status of each name's last successful update

gwApiVars == <<api_last, api_recent>>

\* A frame's way from the gateway through the broker and back, with its times
VARIABLES
    t_clock,                    \* time.time(), in seconds
    t_frames,                   \* the envelopes published on clients_data
    t_verdicts,                 \* the branch verdicts published
    t_emitted                   \* the messages sent to the clients' WebSockets

gwTimeVars == <<t_clock, t_frames, t_verdicts, t_emitted>>

\* The log cleanup worker the gateway starts, and the logs it sweeps
VARIABLES
    log_time,                   \* time.time(), in retention units
    log_files,                  \* the *.log files under the log root
    log_dirs,                   \* the directories that exist
    log_worker,                 \* where _cleanup_loop is, and its locals
    log_faults,                 \* OSErrors the file system has raised so far
    log_writes,                 \* lines the loggers have written so far
    log_last                    \* the last file _cleanup_loop handled

gwLogVars ==
    <<log_time, log_files, log_dirs, log_worker, log_faults, log_writes,
      log_last>>

\* The callbacks of the gateway's consumer of the actions queue
VARIABLES
    o_tasks,                    \* delivered actions whose callback task waits to run
    o_sent                      \* the actions sent to the sockets, in order

gwOrderVars == <<o_tasks, o_sent>>

\* The consumer callbacks of Sync_RMQ and Async_RMQ
VARIABLES
    cb_msgs                     \* per delivered message: what its callback did

cbVars == <<cb_msgs>>

\* publish_data of Sync_RMQ and Async_RMQ
VARIABLES
    pub,                        \* the publish_data call in progress, or the last one
    pub_channel,                \* per class: the producer channel, None or open
    pub_calls                   \* publish_data calls made so far

pubVars == <<pub, pub_channel, pub_calls>>

\* The Clients_status hash under the admin API and the gateway at once
VARIABLES
    adm_hash,                   \* the fields of the Clients_status hash
    adm_req,                    \* per request thread: the update it is handling
    adm_active,                 \* the gateway's activate_clients
    adm_last                    \* the last write to the hash: who, and the hash before

admVars == <<adm_hash, adm_req, adm_active, adm_last>>

\* The handler threads of the ServerManager and its monitor loop
VARIABLES
    th,                         \* per handler: its thread and its thread_started
    th_main                     \* the handler whose Start_thread the main thread is in

thrVars == <<th, th_main>>

\* The services' supervising loops and their child processes
VARIABLES
    sup                         \* per service: main() and the Process it starts

supVars == <<sup>>

gwExtraVars == <<gwOrderVars, cbVars, pubVars, admVars, thrVars, supVars>>

\* The gateway's own state and the other services.
gwOldVars ==
    <<connection_semaphore, registered_clients, activate_clients, ws, gw_conn,
      gw_frames, gw_store, clients_data, gw_last, gwStatusVars, gwActionVars,
      gwApiVars, gwTimeVars, gwLogVars>>

outerVars == <<rlVars, dispVars, wkVars, fuVars>>

gwVars == <<connection_semaphore, registered_clients, activate_clients, ws,
            gw_conn, gw_frames, gw_store, clients_data, gw_last, gwStatusVars,
            gwActionVars, gwApiVars, gwTimeVars, gwLogVars, gwExtraVars>>

\* What the RateLimiter leaves alone.
notLimiter == <<mgVars, dispVars, wkVars, fuVars, gwVars>>

\* What the RateLimiterManager leaves alone.
notManager == <<limiterVars, dispVars, wkVars, fuVars, gwVars>>

\* What allowRequest and the sweep leave alone: the shutdown state as well.
notRL == <<rlStopVars, notLimiter>>

notDisp == <<rlVars, wkVars, fuVars, gwVars>>

\* What the consumers of the worker leave alone.
notWk == <<refVars, execVars, payloadVars, rlVars, dispVars, fuVars, gwVars>>

\* What the payloads leave alone.
notPayload == <<wkQueueVars, refVars, execVars, rlVars, dispVars, fuVars, gwVars>>

\* What the executor leaves alone.
notExec == <<wkQueueVars, refVars, payloadVars, rlVars, dispVars, fuVars, gwVars>>

\* What the reference embeddings leave alone.
notRef == <<wkQueueVars, execVars, payloadVars, rlVars, dispVars, fuVars, gwVars>>

notFu == <<rlVars, dispVars, wkVars, gwVars>>

notGw ==
    <<gwApiVars, gwTimeVars, gwLogVars, gwExtraVars, rlVars, dispVars, wkVars,
      fuVars>>

\* What the callbacks of the actions consumer leave alone.
notOrder ==
    <<connection_semaphore, registered_clients, activate_clients, ws, gw_conn,
      gw_frames, gw_store, clients_data, gw_last, gwStatusVars, gwApiVars,
      gwTimeVars, gwLogVars, cbVars, pubVars, admVars, thrVars, supVars,
      rlVars, dispVars, wkVars, fuVars>>

\* What the consumer callbacks leave alone.
notCb == <<gwOldVars, outerVars, gwOrderVars, pubVars, admVars, thrVars, supVars>>

\* What publish_data leaves alone.
notPub == <<gwOldVars, outerVars, gwOrderVars, cbVars, admVars, thrVars, supVars>>

\* What the writers of Clients_status leave alone.
notAdm == <<gwOldVars, outerVars, gwOrderVars, cbVars, pubVars, thrVars, supVars>>

\* What the handler threads leave alone.
notThr == <<gwOldVars, outerVars, gwOrderVars, cbVars, pubVars, admVars, supVars>>

\* What the supervising loops leave alone.
notSup == <<gwOldVars, outerVars, gwOrderVars, cbVars, pubVars, admVars, thrVars>>

\* What the log cleanup worker leaves alone.
notLog ==
    <<connection_semaphore, registered_clients, activate_clients, ws, gw_conn,
      gw_frames, gw_store, clients_data, gw_last, gwStatusVars, gwActionVars,
      gwApiVars, gwTimeVars, gwExtraVars, rlVars, dispVars, wkVars, fuVars>>

\* What the frames' times leave alone.
notTime ==
    <<connection_semaphore, registered_clients, activate_clients, ws, gw_conn,
      gw_frames, gw_store, clients_data, gw_last, gwStatusVars, gwActionVars,
      gwApiVars, gwLogVars, gwExtraVars, rlVars, dispVars, wkVars, fuVars>>

\* What the admin API leaves alone.
notApi ==
    <<connection_semaphore, registered_clients, activate_clients, ws, gw_conn,
      gw_frames, gw_store, clients_data, gw_last, gw_status, gwActionVars,
      gwTimeVars, gwLogVars, gwExtraVars, rlVars, dispVars, wkVars, fuVars>>

\* RateLimiter._is_client_active
IsClientActive(cid, t) ==
    IF ~HasKey(client_window_start, cid)
    THEN FALSE
    ELSE LET win_start == client_window_start[cid]
             ls == DictGet(client_last_seen, cid, win_start)
         IN  t - Max2(win_start, ls) < window_size

\* sum(1 for cid in self.client_counts.keys() if self._is_client_active(...))
CountActive(t) ==
    Cardinality({cid \in DOMAIN client_counts : IsClientActive(cid, t)})

\* The ids that hold an active window at time t (4.1: active iff
\* now - max(window_start, last_seen) < W), read off the maps.
ActiveIds(t) ==
    {cid \in RLIds :
        /\ HasKey(client_window_start, cid)
        /\ t - Max2(client_window_start[cid],
                    DictGet(client_last_seen, cid, client_window_start[cid]))
             < window_size}

\* locals of a caller that is not inside allowRequest
RLIdle ==
    [pc |-> "idle", client_id |-> 1, current_time |-> 0,
     client_is_active |-> FALSE, active_clients |-> 0,
     current_count |-> 0, window_start |-> 0]

\* stopping: shutdown() had begun when the call started
RLNoObs ==
    [ret |-> "none", pre |-> "none", wrote |-> FALSE, refreshed |-> FALSE,
     stopping |-> FALSE]

ShutdownIdle == [pc |-> "idle", returned |-> 0]

\* None where a manager or a limiter is expected
NoObject == 0

MgNoLast ==
    [op |-> "none", n |-> 0, self |-> NoObject, has_cls |-> FALSE,
     has_config |-> FALSE, before |-> NoObject, since |-> {},
     managers |-> 0, limiters |-> 0, ret |-> NoObject, raised |-> "none"]

SweepIdle == [pc |-> "wait", current_time |-> 0, keys |-> {}, client_id |-> 1]

RLInitWith(cs, ms) ==
    /\ max_clients \in ms
    /\ window_size = WindowSize
    /\ client_counts = EmptyMap
    /\ client_window_start = EmptyMap
    /\ client_last_seen = EmptyMap
    /\ now = WindowSize
    /\ callers = cs
    /\ rl = [t \in RLThreads |-> RLIdle]
    /\ rl_obs = [t \in RLThreads |-> RLNoObs]
    /\ rl_calls = 0
    /\ admitted = {}
    /\ sw = SweepIdle
    /\ cleanup_stop = FALSE
    /\ executor_shutdown = FALSE
    /\ sd = ShutdownIdle
    /\ m_instance = NoObject
    /\ m_rate_limiter = <<>>
    /\ m_limiters = 0
    /\ m_stopped = {}
    /\ m_since = {}
    /\ m_last = MgNoLast

rlCfgVars == <<max_clients, window_size, callers>>

rlMaps == <<client_counts, client_window_start, client_last_seen>>

\* allowRequest, lines 74-76: read the clock, client_is_active
AllowStart(t, c) ==
    /\ t \in callers
    /\ rl[t].pc = "idle"
    /\ rl_calls < MaxCalls
    /\ rl_calls' = rl_calls + 1
    /\ rl' = [rl EXCEPT ![t] = [RLIdle EXCEPT
                  !.pc = "count", !.client_id = c, !.current_time = now,
                  !.client_is_active = IsClientActive(c, now)]]
    /\ rl_obs' = [rl_obs EXCEPT ![t] = [RLNoObs EXCEPT !.stopping = cleanup_stop]]
    /\ UNCHANGED <<rlMaps, rlCfgVars, now, admitted, sw>>
    /\ UNCHANGED notRL

\* What the maps hold when the call counts the active clients.
Occupancy(t) ==
    IF Cardinality(ActiveIds(rl[t].current_time)) = max_clients
    THEN (IF rl[t].client_id \in ActiveIds(rl[t].current_time)
          THEN "full_active" ELSE "full_new")
    ELSE "other"

\* allowRequest, lines 77-79: active_clients
AllowCount(t) ==
    /\ rl[t].pc = "count"
    /\ rl' = [rl EXCEPT ![t].pc = "decide",
                        ![t].active_clients = CountActive(rl[t].current_time)]
    /\ rl_obs' = [rl_obs EXCEPT ![t].pre = Occupancy(t)]
    /\ UNCHANGED <<rlMaps, rlCfgVars, now, rl_calls, admitted, sw>>
    /\ UNCHANGED notRL

\* allowRequest, line 81: the capacity test
DenyCondition(t) ==
    ~rl[t].client_is_active /\ rl[t].active_clients >= max_clients

\* allowRequest, lines 81-93: deny, or read the entry and reset a stale window
AllowDecide(t) ==
    /\ rl[t].pc = "decide"
    /\ IF DenyCondition(t)
       THEN /\ rl' = [rl EXCEPT ![t] = RLIdle]
            /\ rl_obs' = [rl_obs EXCEPT ![t].ret = "deny"]
       ELSE LET c == rl[t].client_id
                fresh == ~HasKey(client_window_start, c)
                            \/ ~rl[t].client_is_active
            IN  /\ rl' = [rl EXCEPT
                      ![t].pc = "w_count",
                      ![t].current_count =
                          IF fresh THEN 0 ELSE DictGet(client_counts, c, 0),
                      ![t].window_start =
                          IF fresh THEN rl[t].current_time
                          ELSE client_window_start[c]]
                /\ UNCHANGED rl_obs
    /\ UNCHANGED <<rlMaps, rlCfgVars, now, rl_calls, admitted, sw>>
    /\ UNCHANGED notRL

\* allowRequest, line 95
AllowWriteCount(t) ==
    /\ rl[t].pc = "w_count"
    /\ client_counts' =
          DictSet(client_counts, rl[t].client_id, rl[t].current_count)
    /\ rl' = [rl EXCEPT ![t].pc = "w_start"]
    /\ rl_obs' = [rl_obs EXCEPT ![t].wrote = TRUE]
    /\ UNCHANGED <<client_window_start, client_last_seen, rlCfgVars, now,
                   rl_calls, admitted, sw>>
    /\ UNCHANGED notRL

\* allowRequest, line 96
AllowWriteStart(t) ==
    /\ rl[t].pc = "w_start"
    /\ client_window_start' =
          DictSet(client_window_start, rl[t].client_id, rl[t].window_start)
    /\ rl' = [rl EXCEPT ![t].pc = "w_seen"]
    /\ UNCHANGED <<client_counts, client_last_seen, rlCfgVars, now, rl_obs,
                   rl_calls, admitted, sw>>
    /\ UNCHANGED notRL

\* allowRequest, line 97
AllowWriteSeen(t) ==
    /\ rl[t].pc = "w_seen"
    /\ client_last_seen' =
          DictSet(client_last_seen, rl[t].client_id, rl[t].current_time)
    /\ rl' = [rl EXCEPT ![t].pc = "w_incr"]
    /\ rl_obs' = [rl_obs EXCEPT ![t].refreshed =
          (client_last_seen'[rl[t].client_id] = rl[t].current_time)]
    /\ UNCHANGED <<client_counts, client_window_start, rlCfgVars, now,
                   rl_calls, admitted, sw>>
    /\ UNCHANGED notRL

\* allowRequest, lines 99-104: the increment, return True
AllowReturn(t) ==
    /\ rl[t].pc = "w_incr"
    /\ client_counts' =
          DictSet(client_counts, rl[t].client_id, rl[t].current_count + 1)
    /\ admitted' = admitted \cup {<<rl[t].client_id, rl[t].current_time>>}
    /\ rl' = [rl EXCEPT ![t] = RLIdle]
    /\ rl_obs' = [rl_obs EXCEPT ![t].ret = "allow"]
    /\ UNCHANGED <<client_window_start, client_last_seen, rlCfgVars, now,
                   rl_calls, sw>>
    /\ UNCHANGED notRL

callVars == <<rl, rl_obs, rl_calls, admitted>>

\* _cleanup_loop, line 39, with a loop that never looks at the stop flag
LoopSeesStop_Never == FALSE

\* _cleanup_loop, line 39: self._cleanup_stop.is_set()
LoopSeesStop == cleanup_stop

\* _cleanup_loop wakes with the flag clear; _cleanup_old_entries lines 44-46
SweepBegin ==
    /\ sw.pc = "wait"
    /\ ~LoopSeesStop
    /\ sw' = [sw EXCEPT !.pc = "scan", !.current_time = now,
                        !.keys = DOMAIN client_counts]
    /\ UNCHANGED <<rlMaps, rlCfgVars, now, callVars>>
    /\ UNCHANGED notRL

\* _cleanup_old_entries, lines 47-49 with a strict comparison: an entry whose
\* age equals window_size is kept
SweepStale_Strict(cid) ==
    LET win_start == DictGet(client_window_start, cid, 0)
        ls == DictGet(client_last_seen, cid, win_start)
    IN  sw.current_time - Max2(win_start, ls) > window_size

\* _cleanup_old_entries, lines 47-49: the staleness test of one key
SweepStale(cid) ==
    LET win_start == DictGet(client_window_start, cid, 0)
        ls == DictGet(client_last_seen, cid, win_start)
    IN  sw.current_time - Max2(win_start, ls) >= window_size

\* _cleanup_old_entries, lines 46-49 for one key
SweepVisit(cid) ==
    /\ sw.pc = "scan"
    /\ cid \in sw.keys
    /\ sw' = IF SweepStale(cid)
             THEN [sw EXCEPT !.pc = "pop_counts", !.client_id = cid]
             ELSE [sw EXCEPT !.keys = sw.keys \ {cid}]
    /\ UNCHANGED <<rlMaps, rlCfgVars, now, callVars>>
    /\ UNCHANGED notRL

\* _cleanup_old_entries, lines 50-51
SweepPopCounts ==
    /\ sw.pc = "pop_counts"
    /\ client_counts' = DictPop(client_counts, sw.client_id)
    /\ sw' = [sw EXCEPT !.pc = "pop_start"]
    /\ UNCHANGED <<client_window_start, client_last_seen, rlCfgVars, now,
                   callVars>>
    /\ UNCHANGED notRL

\* _cleanup_old_entries, line 52
SweepPopStart ==
    /\ sw.pc = "pop_start"
    /\ client_window_start' = DictPop(client_window_start, sw.client_id)
    /\ sw' = [sw EXCEPT !.pc = "pop_seen"]
    /\ UNCHANGED <<client_counts, client_last_seen, rlCfgVars, now, callVars>>
    /\ UNCHANGED notRL

\* _cleanup_old_entries, line 53
SweepPopSeen ==
    /\ sw.pc = "pop_seen"
    /\ client_last_seen' = DictPop(client_last_seen, sw.client_id)
    /\ sw' = [sw EXCEPT !.pc = "scan", !.keys = sw.keys \ {sw.client_id},
                        !.client_id = 1]
    /\ UNCHANGED <<client_counts, client_window_start, rlCfgVars, now,
                   callVars>>
    /\ UNCHANGED notRL

\* _cleanup_old_entries returns; _cleanup_loop waits for the next interval
SweepEnd ==
    /\ sw.pc = "scan"
    /\ sw.keys = {}
    /\ sw' = SweepIdle
    /\ UNCHANGED <<rlMaps, rlCfgVars, now, callVars>>
    /\ UNCHANGED notRL

\* the wall clock advances
RLTick ==
    /\ now < WindowSize + MaxTime
    /\ now' = now + 1
    /\ UNCHANGED <<rlMaps, rlCfgVars, callVars, sw>>
    /\ UNCHANGED notRL

RLCallNext ==
    \/ \E t \in RLThreads, c \in RLIds : AllowStart(t, c)
    \/ \E t \in RLThreads : AllowCount(t)
    \/ \E t \in RLThreads : AllowDecide(t)
    \/ \E t \in RLThreads : AllowWriteCount(t)
    \/ \E t \in RLThreads : AllowWriteStart(t)
    \/ \E t \in RLThreads : AllowWriteSeen(t)
    \/ \E t \in RLThreads : AllowReturn(t)
    \/ RLTick

RLSweepNext ==
    \/ SweepBegin
    \/ \E cid \in RLIds : SweepVisit(cid)
    \/ SweepPopCounts
    \/ SweepPopStart
    \/ SweepPopSeen
    \/ SweepEnd

\* Bounds of the shutdown model.
MaxShutdowns == 2

MaxStopCalls == 2

\* _cleanup_loop wakes with the flag set and returns: the worker of the
\* executor ends
SweepExit ==
    /\ sw.pc = "wait"
    /\ LoopSeesStop
    /\ sw' = [sw EXCEPT !.pc = "exited"]
    /\ UNCHANGED <<rlMaps, rlCfgVars, now, callVars, rlStopVars>>
    /\ UNCHANGED notLimiter

\* shutdown, lines 62-63: set the stop flag unless it is set
ShutdownBegin ==
    /\ sd.pc = "idle"
    /\ sd.returned < MaxShutdowns
    /\ cleanup_stop' = TRUE
    /\ sd' = [sd EXCEPT !.pc = "executor"]
    /\ UNCHANGED <<rlMaps, rlCfgVars, now, callVars, sw, executor_shutdown>>
    /\ UNCHANGED notLimiter

\* shutdown, line 64: executor.shutdown marks the executor as shut down
ShutdownExecutor ==
    /\ sd.pc = "executor"
    /\ executor_shutdown' = TRUE
    /\ sd' = [sd EXCEPT !.pc = "join"]
    /\ UNCHANGED <<rlMaps, rlCfgVars, now, callVars, sw, cleanup_stop>>
    /\ UNCHANGED notLimiter

\* shutdown, line 64: wait=True joins the worker that runs _cleanup_loop, then
\* shutdown returns
ShutdownReturn ==
    /\ sd.pc = "join"
    /\ sw.pc = "exited"
    /\ sd' = [pc |-> "idle", returned |-> sd.returned + 1]
    /\ UNCHANGED <<rlMaps, rlCfgVars, now, callVars, sw, cleanup_stop,
                   executor_shutdown>>
    /\ UNCHANGED notLimiter

\* allowRequest begins, for the first MaxStopCalls calls
AllowStartBounded(t, c) == rl_calls < MaxStopCalls /\ AllowStart(t, c)

RLCallSteps ==
    \/ \E t \in RLThreads : AllowCount(t)
    \/ \E t \in RLThreads : AllowDecide(t)
    \/ \E t \in RLThreads : AllowWriteCount(t)
    \/ \E t \in RLThreads : AllowWriteStart(t)
    \/ \E t \in RLThreads : AllowWriteSeen(t)
    \/ \E t \in RLThreads : AllowReturn(t)

RLShutdownSteps == ShutdownExecutor \/ ShutdownReturn

\* The limiter from construction to shutdown: calls, the sweep, shutdown.
RLLifeNext ==
    \/ \E t \in RLThreads, c \in RLIds : AllowStartBounded(t, c)
    \/ RLCallSteps
    \/ RLTick
    \/ RLSweepNext
    \/ SweepExit
    \/ ShutdownBegin
    \/ RLShutdownSteps

\* Bounds of the manager model.
MaxManagers == 3

MaxManagerCalls == 6

\* The managers constructed so far.
Managers == 1..Len(m_rate_limiter)

\* The record of a call on the manager.
MgCall(op, self, has_cls, has_config, ret, raised) ==
    [op |-> op, n |-> m_last.n + 1, self |-> self, has_cls |-> has_cls,
     has_config |-> has_config, before |-> m_instance, since |-> m_since,
     managers |-> Len(m_rate_limiter), limiters |-> m_limiters,
     ret |-> ret, raised |-> raised]

\* RateLimiterManager.get_instance(rate_limiter_cls, config); has_cls and
\* has_config: the argument is given.  With no instance and both arguments,
\* cls(rate_limiter_cls, config) constructs a manager whose __init__ constructs
\* its limiter.
GetInstance(has_cls, has_config) ==
    /\ m_last.n < MaxManagerCalls
    /\ IF m_instance # NoObject
       THEN /\ m_last' = MgCall("get_instance", NoObject, has_cls, has_config,
                                m_instance, "none")
            /\ m_since' = m_since \cup {m_instance}
            /\ UNCHANGED <<m_instance, m_rate_limiter, m_limiters>>
       ELSE IF ~has_cls \/ ~has_config
       THEN /\ m_last' = MgCall("get_instance", NoObject, has_cls, has_config,
                                NoObject, "ValueError")
            /\ UNCHANGED <<m_instance, m_rate_limiter, m_limiters, m_since>>
       ELSE /\ Len(m_rate_limiter) < MaxManagers
            /\ m_limiters' = m_limiters + 1
            /\ m_rate_limiter' = Append(m_rate_limiter, m_limiters + 1)
            /\ m_instance' = Len(m_rate_limiter) + 1
            /\ m_since' = m_since \cup {Len(m_rate_limiter) + 1}
            /\ m_last' = MgCall("get_instance", NoObject, has_cls, has_config,
                                Len(m_rate_limiter) + 1, "none")
    /\ UNCHANGED m_stopped
    /\ UNCHANGED notManager

\* RateLimiterManager.allow_request on a manager the caller holds: delegated
\* to the limiter, RuntimeError without one
ManagerAllowRequest(self) ==
    /\ m_last.n < MaxManagerCalls
    /\ self \in Managers
    /\ m_last' = MgCall("allow_request", self, FALSE, FALSE,
                        m_rate_limiter[self],
                        IF m_rate_limiter[self] = NoObject
                        THEN "RuntimeError" ELSE "none")
    /\ UNCHANGED <<m_instance, m_rate_limiter, m_limiters, m_stopped, m_since>>
    /\ UNCHANGED notManager

\* shutdown that leaves RateLimiterManager._instance as it is
InstanceAfterShutdown_Kept == m_instance

\* shutdown, line 45: RateLimiterManager._instance = None
InstanceAfterShutdown == NoObject

\* RateLimiterManager.shutdown on a manager the caller holds
ManagerShutdown(self) ==
    /\ m_last.n < MaxManagerCalls
    /\ self \in Managers
    /\ IF m_rate_limiter[self] # NoObject
       THEN /\ m_stopped' = m_stopped \cup {m_rate_limiter[self]}
            /\ m_rate_limiter' = [m_rate_limiter EXCEPT ![self] = NoObject]
       ELSE UNCHANGED <<m_stopped, m_rate_limiter>>
    /\ m_instance' = InstanceAfterShutdown
    /\ m_since' = {}
    /\ m_last' = MgCall("shutdown", self, FALSE, FALSE, NoObject, "none")
    /\ UNCHANGED m_limiters
    /\ UNCHANGED notManager

MgNext ==
    \/ \E has_cls \in BOOLEAN, has_config \in BOOLEAN :
          GetInstance(has_cls, has_config)
    \/ \E self \in 1..MaxManagers : ManagerAllowRequest(self)
    \/ \E self \in 1..MaxManagers : ManagerShutdown(self)

(***************************************************************************)
(*                      pipelines_manager_service                          *)
(***************************************************************************)
\* Bounds of the dispatcher model.
MaxPipelines == 3

MaxEnvelopes == 6

PipelineIds == 0..(MaxPipelines - 1)

\* A key that a payload does not have; dict.get returns None for it.
Absent == "<absent>"

NoneValue == "<None>"

\* Python truthiness of a value read with dict.get
Truthy(v) == v \notin {NoneValue, ""}

\* payload.get(field)
PayloadGet(payload, field) ==
    IF payload[field] = Absent THEN NoneValue ELSE payload[field]

\* a or b
PyOr(a, b) == IF Truthy(a) THEN a ELSE b

\* What arrives on clients_data: a pickled object that is a dict or is not,
\* with or without the keys client_name and user_name.
DictPayloads ==
    [isdict : {TRUE}, client_name : {Absent, "", "bob"},
     user_name : {Absent, "amy"}]

NonDictPayload == [isdict |-> FALSE, client_name |-> Absent, user_name |-> Absent]

ClientsDataPayloads == DictPayloads \cup {NonDictPayload}

\* f"PipeLine_{pipeline_id}" of PipeLinesManager.__push_data_to_pipeline
RoutingKey_Lower(pipeline_id) == <<"pipeline_", pipeline_id>>

RoutingKey(pipeline_id) == <<"PipeLine_", pipeline_id>>

\* f"PipeLine_{pipeline_id}" of pipeline_worker.main: PipeLine.pipeline_name
PipelineName(pipeline_id) == <<"PipeLine_", pipeline_id>>

\* f"{self.pipeline_name}_face_data", f"{self.pipeline_name}_phone_data"
FaceDataQueue(pipeline_name) == <<pipeline_name, "_face_data">>

PhoneDataQueue(pipeline_name) == <<pipeline_name, "_phone_data">>

\* Sync_RMQ.create_queues: binding_key = routing_key or queue_name
CreateQueues(queues, routing_key) == {<<q, routing_key>> : q \in queues}

\* A direct exchange hands a message to the queues bound with its routing key.
DirectRoute(key) == {b[1] : b \in {x \in bindings : x[2] = key}}

NoKey == <<"", 0>>

DispNoLast ==
    [payload |-> NonDictPayload, before |-> 0, after |-> 0, key |-> NoKey,
     published |-> FALSE, to |-> {}, declared |-> {}, settled |-> "none"]

DispInitWith(n) ==
    /\ num_pipelines = n
    /\ next_pipeline = 0
    /\ pipeline_message_counts = [pipeline_id \in 0..(n - 1) |-> 0]
    /\ bindings = {}
    /\ d_consumed = 0
    /\ d_identified = 0
    /\ d_last = DispNoLast

\* PipeLine.__setup_RMQ_connections of the worker started with PIPELINE_ID = id:
\* both input queues are bound with routing_key = self.pipeline_name
SetupRMQConnections(id) ==
    /\ bindings' = bindings \cup
          CreateQueues({FaceDataQueue(PipelineName(id)),
                        PhoneDataQueue(PipelineName(id))}, PipelineName(id))
    /\ bindings' # bindings
    /\ UNCHANGED <<num_pipelines, next_pipeline, pipeline_message_counts,
                   d_consumed, d_identified, d_last>>
    /\ UNCHANGED notDisp

\* __select_pipeline with a step of 2
NextPipeline_Skip(p) == (p + 2) % num_pipelines

\* __select_pipeline: the pointer after a selection
NextPipeline(p) == (p + 1) % num_pipelines

\* The payload carries a client identifier.
Identified(payload) ==
    /\ payload.isdict
    /\ Truthy(PayloadGet(payload, "client_name"))
          \/ Truthy(PayloadGet(payload, "user_name"))

\* get_clients_data inside the consume_messages callback: the early returns,
\* __push_data_to_pipeline, and the ack (or the nack when publish_data raised)
GetClientsData(payload, publish_ok) ==
    /\ d_consumed < MaxEnvelopes
    /\ d_consumed' = d_consumed + 1
    /\ d_identified' = d_identified + (IF Identified(payload) THEN 1 ELSE 0)
    /\ IF ~payload.isdict
       THEN /\ d_last' = [DispNoLast EXCEPT !.payload = payload,
                             !.before = next_pipeline, !.after = next_pipeline,
                             !.settled = "ack"]
            /\ UNCHANGED <<next_pipeline, pipeline_message_counts>>
       ELSE LET client_name == PyOr(PayloadGet(payload, "client_name"),
                                    PayloadGet(payload, "user_name"))
                pipeline_id == next_pipeline
            IN  IF ~Truthy(client_name)
                THEN /\ d_last' = [DispNoLast EXCEPT !.payload = payload,
                                      !.before = next_pipeline,
                                      !.after = next_pipeline, !.settled = "ack"]
                     /\ UNCHANGED <<next_pipeline, pipeline_message_counts>>
                ELSE /\ next_pipeline' = NextPipeline(next_pipeline)
                     /\ pipeline_message_counts' =
                           [pipeline_message_counts EXCEPT
                               ![pipeline_id] = @ + 1]
                     /\ d_last' =
                           [payload |-> payload, before |-> next_pipeline,
                            after |-> next_pipeline',
                            key |-> RoutingKey(pipeline_id),
                            published |-> publish_ok,
                            to |-> IF publish_ok
                                   THEN DirectRoute(RoutingKey(pipeline_id))
                                   ELSE {},
                            declared |-> {b[1] : b \in bindings},
                            settled |-> IF publish_ok THEN "ack" ELSE "nack"]
    /\ UNCHANGED <<num_pipelines, bindings>>
    /\ UNCHANGED notDisp

DispNext ==
    \/ \E id \in PipelineIds : SetupRMQConnections(id)
    \/ \E payload \in ClientsDataPayloads, publish_ok \in BOOLEAN :
          GetClientsData(payload, publish_ok)

(***************************************************************************)
(*                      pipeline_worker_service                            *)
(***************************************************************************)
\* Bounds of the worker model.
MaxRouted == 3

MaxQueueLength == 2

Envelopes == 1..MaxRouted

Branches == {"face", "phone"}

NoEnvelope == 0

\* No vector: None
NoVector == 0

\* No recorded mtime: None
NoVersion == 0

RefNoLast ==
    [n |-> 0, client_name |-> "", current_version |-> 0, content |-> 0,
     cached_version |-> NoVersion, cached |-> NoVector, hit |-> FALSE,
     computed |-> FALSE, ret |-> NoVector]

WkInit ==
    /\ w_routed = 0
    /\ w_ready = [b \in Branches |-> <<>>]
    /\ w_unacked = [b \in Branches |-> NoEnvelope]
    /\ w_future = [b \in Branches |-> "none"]
    /\ face_pipeline_results = <<>>
    /\ phone_pipeline_results = <<>>
    /\ w_stop = FALSE
    /\ w_fate = [e \in Envelopes |-> [b \in Branches |-> "none"]]
    /\ w_failed = {}
    /\ image_content = 1
    /\ image_mtime = 1
    /\ dir_mtime = 1
    /\ fs_clock = 1
    /\ ref_embeddings = EmptyMap
    /\ ref_versions = EmptyMap
    /\ client_image_cache = EmptyMap
    /\ last_client_mtime = EmptyMap
    /\ ref_last = RefNoLast
    /\ p_clients_data = <<>>
    /\ p_face_results = <<>>
    /\ p_phone_results = <<>>
    /\ x_routed = 0
    /\ x_ready = [b \in Branches |-> <<>>]
    /\ x_delivered = [b \in Branches |-> <<>>]
    /\ x_unacked = {}
    /\ x_waiting = <<>>
    /\ x_running = {}
    /\ x_done = {}
    /\ x_published = [b \in Branches |-> <<>>]

\* queue_args of __setup_RMQ_connections: x-max-length = MAX_CLIENTS with
\* x-overflow = drop-head; the queue after one more message is published to it
DropHead(q, e) ==
    IF Len(q) + 1 > MaxQueueLength THEN Append(Tail(q), e) ELSE Append(q, e)

\* The message that publishing to a full queue evicts.
Evicted(q) == IF Len(q) + 1 > MaxQueueLength THEN Head(q) ELSE NoEnvelope

\* The dispatcher publishes the next envelope with the pipeline's routing
\* key: the exchange hands it to both input queues.
RouteEnvelope ==
    /\ w_routed < MaxRouted
    /\ w_routed' = w_routed + 1
    /\ w_ready' = [b \in Branches |-> DropHead(w_ready[b], w_routed + 1)]
    /\ w_fate' = [e \in Envelopes |-> [b \in Branches |->
          IF e = w_routed + 1 THEN "ready"
          ELSE IF e = Evicted(w_ready[b]) THEN "dropped"
          ELSE w_fate[e][b]]]
    /\ UNCHANGED <<w_unacked, w_future, face_pipeline_results,
                   phone_pipeline_results, w_stop, w_failed>>
    /\ UNCHANGED notWk

\* queue_args of __setup_RMQ_connections: x-message-ttl = 400; the oldest
\* ready message of a queue expires
ExpireMessage(b) ==
    /\ w_ready[b] # <<>>
    /\ w_ready' = [w_ready EXCEPT ![b] = Tail(@)]
    /\ w_fate' = [w_fate EXCEPT ![Head(w_ready[b])][b] = "expired"]
    /\ UNCHANGED <<w_routed, w_unacked, w_future, face_pipeline_results,
                   phone_pipeline_results, w_stop, w_failed>>
    /\ UNCHANGED notWk

\* Sync_RMQ.consume_messages callback with an executor (prefetch_count 1):
\* the broker delivers the head of the queue, the handler is submitted
DeliverMessage(b) ==
    /\ w_unacked[b] = NoEnvelope
    /\ w_ready[b] # <<>>
    /\ w_unacked' = [w_unacked EXCEPT ![b] = Head(w_ready[b])]
    /\ w_ready' = [w_ready EXCEPT ![b] = Tail(@)]
    /\ w_future' = [w_future EXCEPT ![b] = "submitted"]
    /\ w_fate' = [w_fate EXCEPT ![Head(w_ready[b])][b] = "unacked"]
    /\ UNCHANGED <<w_routed, face_pipeline_results, phone_pipeline_results,
                   w_stop, w_failed>>
    /\ UNCHANGED notWk

\* A branch verdict: {**result, **client_data} without user_image
\* (no key of it says that processing failed)
Verdict(e, hydrated) ==
    [envelope |-> e, hydrated |-> hydrated, processing_error |-> FALSE]

\* phone_detection_pipeline: hydrate, run the phone model, publish; every
\* exception is caught and logged
PhoneDetectionPipeline(hydrate_ok, model_ok, publish_ok) ==
    /\ w_future["phone"] = "submitted"
    /\ w_future' = [w_future EXCEPT !["phone"] = "done"]
    /\ phone_pipeline_results' =
          IF model_ok /\ publish_ok
          THEN Append(phone_pipeline_results,
                      Verdict(w_unacked["phone"], hydrate_ok))
          ELSE phone_pipeline_results
    /\ w_failed' =
          IF hydrate_ok /\ model_ok /\ publish_ok THEN w_failed
          ELSE w_failed \cup {<<w_unacked["phone"], "phone">>}
    /\ UNCHANGED <<w_routed, w_ready, w_unacked, face_pipeline_results,
                   w_stop, w_fate>>
    /\ UNCHANGED notWk

\* recognition_anti_spoof_pipeline: hydrate, run the face model (which
\* returns its default result for a frame that is None), publish; every
\* exception is caught and logged, and sets __STOP
RecognitionAntiSpoofPipeline(hydrate_ok, model_ok, publish_ok) ==
    /\ w_future["face"] = "submitted"
    /\ w_future' = [w_future EXCEPT !["face"] = "done"]
    /\ LET raised == (hydrate_ok /\ ~model_ok) \/ ~publish_ok
       IN  /\ face_pipeline_results' =
                 IF raised THEN face_pipeline_results
                 ELSE Append(face_pipeline_results,
                             Verdict(w_unacked["face"], hydrate_ok))
           /\ w_stop' = (w_stop \/ raised)
           /\ w_failed' =
                 IF hydrate_ok /\ ~raised THEN w_failed
                 ELSE w_failed \cup {<<w_unacked["face"], "face">>}
    /\ UNCHANGED <<w_routed, w_ready, w_unacked, phone_pipeline_results,
                   w_fate>>
    /\ UNCHANGED notWk

\* finalize_future._finalize: fut.result() returned, basic_ack
FinalizeFuture(b) ==
    /\ w_future[b] = "done"
    /\ w_future' = [w_future EXCEPT ![b] = "none"]
    /\ w_unacked' = [w_unacked EXCEPT ![b] = NoEnvelope]
    /\ w_fate' = [w_fate EXCEPT ![w_unacked[b]][b] = "acked"]
    /\ UNCHANGED <<w_routed, w_ready, face_pipeline_results,
                   phone_pipeline_results, w_stop, w_failed>>
    /\ UNCHANGED notWk

WkNext ==
    \/ RouteEnvelope
    \/ \E b \in Branches : ExpireMessage(b)
    \/ \E b \in Branches : DeliverMessage(b)
    \/ \E hydrate_ok \in BOOLEAN, model_ok \in BOOLEAN, publish_ok \in BOOLEAN :
          PhoneDetectionPipeline(hydrate_ok, model_ok, publish_ok)
    \/ \E hydrate_ok \in BOOLEAN, model_ok \in BOOLEAN, publish_ok \in BOOLEAN :
          RecognitionAntiSpoofPipeline(hydrate_ok, model_ok, publish_ok)
    \/ \E b \in Branches : FinalizeFuture(b)

\* Bound of the model of the executor.
MaxExecEnvelopes == 3

\* ThreadPoolExecutor(max_workers=2), PipeLine.__init__ line 58
MaxWorkers == 2

\* PipeLine.__init__ line 53: prefetch_count = 1, which _create_connection
\* applies to the consumer channel with basic_qos; RabbitMQ counts it for
\* each consumer of the channel
PrefetchCount == 1

\* The exchange hands the next envelope to both input queues.
ExecRoute ==
    /\ x_routed < MaxExecEnvelopes
    /\ x_routed' = x_routed + 1
    /\ x_ready' = [b \in Branches |-> Append(x_ready[b], x_routed + 1)]
    /\ UNCHANGED <<x_delivered, x_unacked, x_waiting, x_running, x_done,
                   x_published>>
    /\ UNCHANGED notExec

\* basic_qos with no limit: the broker delivers whatever is ready
PrefetchAllows_Unlimited(b) == TRUE

\* basic_qos(prefetch_count): the broker delivers to a consumer while fewer
\* than prefetch_count of its deliveries are unacknowledged
PrefetchAllows(b) ==
    Cardinality({t \in x_unacked : t[1] = b}) < PrefetchCount

\* Sync_RMQ.consume_messages callback with an executor: the broker delivers
\* the head of the queue and the callback submits the handler
ExecDeliver(b) ==
    /\ x_ready[b] # <<>>
    /\ PrefetchAllows(b)
    /\ x_ready' = [x_ready EXCEPT ![b] = Tail(@)]
    /\ x_delivered' = [x_delivered EXCEPT ![b] = Append(@, Head(x_ready[b]))]
    /\ x_unacked' = x_unacked \cup {<<b, Head(x_ready[b])>>}
    /\ x_waiting' = Append(x_waiting, <<b, Head(x_ready[b])>>)
    /\ UNCHANGED <<x_routed, x_running, x_done, x_published>>
    /\ UNCHANGED notExec

\* A free thread of the executor takes the next handler of its work queue.
ExecStart ==
    /\ x_waiting # <<>>
    /\ Cardinality(x_running) < MaxWorkers
    /\ x_running' = x_running \cup {Head(x_waiting)}
    /\ x_waiting' = Tail(x_waiting)
    /\ UNCHANGED <<x_routed, x_ready, x_delivered, x_unacked, x_done,
                   x_published>>
    /\ UNCHANGED notExec

\* A branch handler publishes its verdict (or fails, which it logs) and
\* returns.
ExecFinish(task, publish_ok) ==
    /\ task \in x_running
    /\ x_running' = x_running \ {task}
    /\ x_done' = x_done \cup {task}
    /\ x_published' =
          IF publish_ok
          THEN [x_published EXCEPT ![task[1]] = Append(@, task[2])]
          ELSE x_published
    /\ UNCHANGED <<x_routed, x_ready, x_delivered, x_unacked, x_waiting>>
    /\ UNCHANGED notExec

\* finalize_future._finalize on the connection's thread: basic_ack
ExecFinalize(task) ==
    /\ task \in x_done
    /\ x_done' = x_done \ {task}
    /\ x_unacked' = x_unacked \ {task}
    /\ UNCHANGED <<x_routed, x_ready, x_delivered, x_waiting, x_running,
                   x_published>>
    /\ UNCHANGED notExec

ExecNext ==
    \/ ExecRoute
    \/ \E b \in Branches : ExecDeliver(b)
    \/ ExecStart
    \/ \E task \in Branches \X (1..MaxExecEnvelopes), publish_ok \in BOOLEAN :
          ExecFinish(task, publish_ok)
    \/ \E task \in Branches \X (1..MaxExecEnvelopes) : ExecFinalize(task)

\* Bounds of the model of the reference embeddings.
MaxImages == 3

MaxRefCalls == 4

RefClients == {"bob"}

\* Recognition_Face.get_embedding of the face of an image: a vector that
\* differs from image to image
GetEmbedding(image) == 100 + image

\* Storage_Writer.write_data opens <client>_1.jpg for writing and writes the
\* new image: the file's mtime moves, the directory's does not (in_place); a
\* writer that replaces the file moves both.
WriteImage(in_place) ==
    /\ image_content < MaxImages
    /\ image_content' = image_content + 1
    /\ fs_clock' = fs_clock + 1
    /\ image_mtime' = fs_clock + 1
    /\ dir_mtime' = IF in_place THEN dir_mtime ELSE fs_clock + 1
    /\ UNCHANGED <<ref_embeddings, ref_versions, client_image_cache,
                   last_client_mtime, ref_last>>
    /\ UNCHANGED notRef

\* files_handler.get_client_image for an enrolled client: the cached image
\* while the mtime of the client's directory is the one recorded
CachedClientImage(client_name) ==
    /\ HasKey(client_image_cache, client_name)
    /\ DictGet(last_client_mtime, client_name, NoVersion) = dir_mtime

GetClientImage(client_name) ==
    IF CachedClientImage(client_name)
    THEN client_image_cache[client_name]
    ELSE image_content

\* _get_reference_embedding, lines 312-318: the test of the in-process cache
RefCacheValid(client_name, current_version) ==
    /\ HasKey(ref_versions, client_name)
    /\ ref_versions[client_name] >= current_version
    /\ HasKey(ref_embeddings, client_name)

\* _get_reference_embedding of a worker built by PipeLine, whose
\* FaceDetectionRecognition has no storage client (ModelsManager is made
\* without one), so _load_embedding_from_storage returns None and
\* _persist_embedding_to_storage does nothing.
\*   embed_ok   Recognition_Face.get_embedding returns
GetReferenceEmbedding(client_name, embed_ok) ==
    LET current_version == image_mtime
        hit == RefCacheValid(client_name, current_version)
        ref_image == GetClientImage(client_name)
        embedding == GetEmbedding(ref_image)
        computed == ~hit /\ embed_ok
    IN  /\ ref_last.n < MaxRefCalls
        /\ ref_last' =
              [n |-> ref_last.n + 1, client_name |-> client_name,
               current_version |-> current_version,
               content |-> image_content,
               cached_version |-> DictGet(ref_versions, client_name, NoVersion),
               cached |-> DictGet(ref_embeddings, client_name, NoVector),
               hit |-> hit, computed |-> computed,
               ret |-> IF hit THEN ref_embeddings[client_name]
                       ELSE IF embed_ok THEN embedding ELSE NoVector]
        /\ IF hit
           THEN UNCHANGED <<client_image_cache, last_client_mtime>>
           ELSE /\ client_image_cache' =
                     DictSet(client_image_cache, client_name, ref_image)
                /\ last_client_mtime' =
                     DictSet(last_client_mtime, client_name, dir_mtime)
        /\ IF computed
           THEN /\ ref_embeddings' =
                     DictSet(ref_embeddings, client_name, embedding)
                /\ ref_versions' =
                     DictSet(ref_versions, client_name, current_version)
           ELSE UNCHANGED <<ref_embeddings, ref_versions>>
        /\ UNCHANGED <<image_content, image_mtime, dir_mtime, fs_clock>>
        /\ UNCHANGED notRef

RefNext ==
    \/ \E in_place \in BOOLEAN : WriteImage(in_place)
    \/ \E client_name \in RefClients, embed_ok \in BOOLEAN :
          GetReferenceEmbedding(client_name, embed_ok)

(***************************************************************************)
(*                      decision_manager_service                           *)
(***************************************************************************)
\* Bound of the fuser model.
MaxVerdicts == 2

\* utilities.Datatypes.Action
NO_ACTION == 0

ACTION_LOCK_SCREEN == 1

ACTION_SIGN_OUT == 2

\* utilities.Datatypes.Reason
EMPTY_REASON == 0

REASON_PHONE_DETECTION == 1

REASON_SPOOF_IMAGE == 5

REASON_WRONG_USER == 6

REASON_NO_FACE == 7

\* A bounding box [x1, y1, x2, y2]
BBox == "bbox"

\* The values a check field of a face verdict can hold
PyTrue == "True"

PyFalse == "False"

\* bool(v) of a check field
PyBool(v) == v = PyTrue

FrameKey == "frames/bob/1.jpg"

\* What arrives on face_pipeline_results: the fields the fuser reads.
\* has_names: the verdict carries client_name and send_time.
FaceVerdicts ==
    [branch : {"face"}, face_bbox : {NoneValue, BBox},
     check_spoof : {NoneValue, PyTrue, PyFalse},
     check_client : {NoneValue, PyTrue, PyFalse},
     phone_bbox : {NoneValue}, has_names : BOOLEAN,
     image_object_key : {NoneValue, FrameKey}]

\* What arrives on phone_pipeline_results.
PhoneVerdicts ==
    [branch : {"phone"}, face_bbox : {NoneValue}, check_spoof : {NoneValue},
     check_client : {NoneValue}, phone_bbox : {NoneValue, BBox},
     has_names : BOOLEAN, image_object_key : {NoneValue, FrameKey}]

ActionReason(action, reason) == [action |-> action, reason |-> reason]

\* ActionDecisionManager.__face_decide_action with the identity check before
\* the spoof check
FaceDecideAction_ClientFirst(models_results) ==
    IF models_results.face_bbox = NoneValue
    THEN ActionReason(ACTION_LOCK_SCREEN, REASON_NO_FACE)
    ELSE IF ~PyBool(models_results.check_client)
    THEN ActionReason(ACTION_LOCK_SCREEN, REASON_WRONG_USER)
    ELSE IF PyBool(models_results.check_spoof)
    THEN ActionReason(ACTION_SIGN_OUT, REASON_SPOOF_IMAGE)
    ELSE ActionReason(NO_ACTION, EMPTY_REASON)

\* ActionDecisionManager.__face_decide_action
FaceDecideAction(models_results) ==
    IF models_results.face_bbox = NoneValue
    THEN ActionReason(ACTION_LOCK_SCREEN, REASON_NO_FACE)
    ELSE IF PyBool(models_results.check_spoof)
    THEN ActionReason(ACTION_SIGN_OUT, REASON_SPOOF_IMAGE)
    ELSE IF ~PyBool(models_results.check_client)
    THEN ActionReason(ACTION_LOCK_SCREEN, REASON_WRONG_USER)
    ELSE ActionReason(NO_ACTION, EMPTY_REASON)

\* ActionDecisionManager.__phone_decide_action that signs out on every verdict
PhoneDecideAction_Always(models_results) ==
    ActionReason(ACTION_SIGN_OUT, REASON_PHONE_DETECTION)

\* ActionDecisionManager.__phone_decide_action
PhoneDecideAction(models_results) ==
    IF models_results.phone_bbox # NoneValue
    THEN ActionReason(ACTION_SIGN_OUT, REASON_PHONE_DETECTION)
    ELSE ActionReason(NO_ACTION, EMPTY_REASON)

\* the saved_actions test that lets every action through
NeedsSaving_Every(action_result) == action_result.action >= NO_ACTION

\* action_result.get("action") != self.action_decision_manager.default_action["action"]
NeedsSaving(action_result) == action_result.action # NO_ACTION

FuNoLast ==
    [id |-> 0, verdict |-> CHOOSE v \in PhoneVerdicts : TRUE,
     action_result |-> ActionReason(NO_ACTION, EMPTY_REASON),
     raised |-> FALSE, ok_1 |-> TRUE, ok_2 |-> TRUE, order |-> <<>>,
     settled |-> "none"]

FuInit ==
    /\ actions = <<>>
    /\ saved_actions = <<>>
    /\ frames = {FrameKey}
    /\ f_handled = 0
    /\ f_last = FuNoLast
    /\ f_now = 0
    /\ sa_consumed = 0
    /\ save_action_queue = <<>>
    /\ action_objects = {}
    /\ action_files = {}
    /\ sa_saved = {}

\* payload.get("client_name") of a verdict that carries its names
ClientName == "bob"

\* (user_name or "unknown").replace(" ", "_").lower()
SafeUser(user_name) ==
    IF user_name = NoneValue THEN "unknown"
    ELSE IF user_name = "Bob Lee" THEN "bob_lee"
    ELSE user_name

\* action_object_key of a saved action without image: None
NoObjectKey ==
    [action |-> NO_ACTION, user |-> NoneValue, timestamp |-> 0,
     reason |-> EMPTY_REASON]

\* _build_action_object_key: actions/<Action>/<user>/<timestamp>__<Action>__<Reason>.jpg
\* with the timestamp datetime.now(timezone.utc) read at the call
BuildActionObjectKey(user_name, action_reason, utc_now) ==
    [action |-> action_reason.action, user |-> SafeUser(user_name),
     timestamp |-> utc_now, reason |-> action_reason.reason]

\* _load_frame: the verdict carries no user_image, so the frame is fetched
\* from the store by image_object_key; None when the key is missing, the
\* object is gone or the fetch or the decoding fails
LoadFrame(payload, fetch_ok) ==
    /\ payload.image_object_key # NoneValue
    /\ payload.image_object_key \in frames
    /\ fetch_ok

\* _cleanup_frame: delete the verdict's frame from the store
CleanupFrame(payload, delete_ok) ==
    IF payload.image_object_key # NoneValue /\ delete_ok
    THEN frames \ {payload.image_object_key}
    ELSE frames

\* The body shared by the two handlers once the action is decided: publish the
\* action, publish the saved action when the action needs saving, clean up the
\* frame, and the ack of consume_messages (the handler raises nothing).
\*   skip          the handler publishes nothing for this verdict
\*   key_error     model_result['client_name'] or ['send_time'] is missing
\*   publish_ok_1  publish_data to actions succeeds
\*   publish_ok_2  publish_data to saved_actions succeeds
\*   fetch_ok      fetch_object and imdecode of the frame succeed
\*   delete_ok     delete_object of the frame succeeds
HandleVerdict(payload, action_result, skip, key_error, publish_ok_1, publish_ok_2, fetch_ok, delete_ok) ==
    LET id == f_handled + 1
        to_actions == ~skip /\ ~key_error /\ publish_ok_1
        to_saved == to_actions /\ NeedsSaving(action_result) /\ publish_ok_2
        attempts_ok ==
            \/ skip
            \/ publish_ok_1 /\ (NeedsSaving(action_result) => publish_ok_2)
        action_image == LoadFrame(payload, fetch_ok)
    IN  /\ f_handled < MaxVerdicts
        /\ f_handled' = id
        /\ actions' =
              IF to_actions
              THEN Append(actions, [of |-> id, action |-> action_result.action,
                                    reason |-> action_result.reason])
              ELSE actions
        /\ saved_actions' =
              IF to_saved
              THEN Append(saved_actions,
                          [of |-> id, action |-> action_result.action,
                           reason |-> action_result.reason,
                           user_name |-> ClientName,
                           has_image |-> action_image,
                           action_image_object_key |->
                              IF action_image
                              THEN BuildActionObjectKey(ClientName,
                                                        action_result, f_now)
                              ELSE NoObjectKey,
                           branch |-> payload.branch,
                           image_object_key |-> payload.image_object_key,
                           fetch_ok |-> fetch_ok])
              ELSE saved_actions
        /\ frames' = CleanupFrame(payload, delete_ok)
        /\ f_last' =
              [id |-> id, verdict |-> payload, action_result |-> action_result,
               raised |-> (~skip /\ (key_error \/ ~attempts_ok)),
               ok_1 |-> publish_ok_1, ok_2 |-> publish_ok_2,
               order |-> (IF to_actions THEN <<"actions">> ELSE <<>>)
                            \o (IF to_saved THEN <<"saved_actions">> ELSE <<>>),
               settled |-> "ack"]
        /\ UNCHANGED <<fuSaveVars, notFu>>

\* process_face_pipeline_results: face_decide_action, then the body above
ProcessFacePipelineResults(payload, publish_ok_1, publish_ok_2, fetch_ok, delete_ok) ==
    HandleVerdict(payload, FaceDecideAction(payload), FALSE,
                  ~payload.has_names, publish_ok_1, publish_ok_2, fetch_ok,
                  delete_ok)

\* process_phone_pipeline_results: phone_decide_action returns (False, None)
\* for NO_ACTION and reads the names only otherwise
ProcessPhonePipelineResults(payload, publish_ok_1, publish_ok_2, fetch_ok, delete_ok) ==
    LET p__decide_action == PhoneDecideAction(payload)
        found_phone == p__decide_action.action # NO_ACTION
    IN  HandleVerdict(payload, p__decide_action, ~found_phone,
                      found_phone /\ ~payload.has_names,
                      publish_ok_1, publish_ok_2, fetch_ok, delete_ok)

\* storage_ok: the object store answers the calls of the handler, or none
FuNext ==
    \/ \E payload \in FaceVerdicts, publish_ok_1 \in BOOLEAN,
          publish_ok_2 \in BOOLEAN, storage_ok \in BOOLEAN :
          ProcessFacePipelineResults(payload, publish_ok_1, publish_ok_2,
                                     storage_ok, storage_ok)
    \/ \E payload \in PhoneVerdicts, publish_ok_1 \in BOOLEAN,
          publish_ok_2 \in BOOLEAN, storage_ok \in BOOLEAN :
          ProcessPhonePipelineResults(payload, publish_ok_1, publish_ok_2,
                                      storage_ok, storage_ok)

(***************************************************************************)
(*                      The payloads of the worker and the gateway         *)
(***************************************************************************)
\* Bound of the model of the payloads.
MaxPayloads == 3

\* A pixel matrix (numpy.ndarray) as the value of a key
Pixels == "<ndarray>"

\* {**a, **b}: the keys of both, b's value where both have the key
DictMerge(a, b) ==
    [k \in DOMAIN a \cup DOMAIN b |-> IF k \in DOMAIN b THEN b[k] ELSE a[k]]

\* handle_connection, lines 376-390: the envelope of a stored frame
FrameEnvelope ==
    DictSet(DictSet(DictSet(EmptyMap, "client_name", ClientName),
                    "image_object_key", FrameKey), "user_image", NoneValue)

\* handle_connection publishes the envelope on clients_data; the dispatcher
\* forwards it as it is.
PublishEnvelope ==
    /\ Len(p_clients_data) < MaxPayloads
    /\ p_clients_data' = Append(p_clients_data, FrameEnvelope)
    /\ UNCHANGED <<p_face_results, p_phone_results>>
    /\ UNCHANGED notPayload

\* _hydrate_payload: user_image is the decoded frame, or None when the fetch
\* or the decoding fails
HydratePayload(payload, hydrate_ok) ==
    DictSet(payload, "user_image", IF hydrate_ok THEN Pixels ELSE NoneValue)

\* DetectFaces.detect_face: the box and the crop of the first face, or None
DetectFace(face_found) ==
    DictSet(DictSet(EmptyMap, "face_bbox", IF face_found THEN BBox ELSE NoneValue),
            "face_image", IF face_found THEN Pixels ELSE NoneValue)

\* FaceDetectionRecognition.pipeline: the default result for a frame that is
\* None, else the default updated with detect_face's result and with
\* __check_client's when a face was found
FacePipeline(client_data, face_found, check_client, check_spoof) ==
    LET pipeline_result ==
            DictSet(DictSet(DictSet(DictSet(EmptyMap,
                "face_bbox", NoneValue), "face_image", NoneValue),
                "check_client", NoneValue), "check_spoof", NoneValue)
    IN  IF client_data["user_image"] = NoneValue \/ ~face_found
        THEN pipeline_result
        ELSE DictSet(DictSet(DictMerge(pipeline_result, DetectFace(face_found)),
                "check_client", check_client), "check_spoof", check_spoof)

\* PhoneDetection.pipeline: the box of the phone, or None
PhonePipeline(client_data, phone_found) ==
    DictSet(EmptyMap, "phone_bbox", IF phone_found THEN BBox ELSE NoneValue)

\* recognition_anti_spoof_pipeline, lines 179-195: the payload published for
\* envelope i
PublishFaceVerdict(i, hydrate_ok, face_found, check_client, check_spoof) ==
    LET client_data == HydratePayload(p_clients_data[i], hydrate_ok)
        result == FacePipeline(client_data, face_found, check_client, check_spoof)
        publish_payload == DictPop(DictMerge(result, client_data), "user_image")
    IN  /\ i = Len(p_face_results) + 1
        /\ i <= Len(p_clients_data)
        /\ p_face_results' = Append(p_face_results, publish_payload)
        /\ UNCHANGED <<p_clients_data, p_phone_results>>
        /\ UNCHANGED notPayload

\* phone_detection_pipeline, lines 150-164: the payload published for
\* envelope i (a frame that is None makes the model raise, and nothing is
\* published)
PublishPhoneVerdict(i, phone_found) ==
    LET client_data == HydratePayload(p_clients_data[i], TRUE)
        result == PhonePipeline(client_data, phone_found)
        publish_payload == DictPop(DictMerge(result, client_data), "user_image")
    IN  /\ i = Len(p_phone_results) + 1
        /\ i <= Len(p_clients_data)
        /\ p_phone_results' = Append(p_phone_results, publish_payload)
        /\ UNCHANGED <<p_clients_data, p_face_results>>
        /\ UNCHANGED notPayload

PayloadNext ==
    \/ PublishEnvelope
    \/ \E i \in 1..MaxPayloads, hydrate_ok \in BOOLEAN, face_found \in BOOLEAN,
          check_client \in {PyTrue, PyFalse}, check_spoof \in {PyTrue, PyFalse} :
          PublishFaceVerdict(i, hydrate_ok, face_found, check_client, check_spoof)
    \/ \E i \in 1..MaxPayloads, phone_found \in BOOLEAN :
          PublishPhoneVerdict(i, phone_found)

(***************************************************************************)
(*                      server_manager_service                             *)
(***************************************************************************)
\* Bound of the clock of the saved-action model.
MaxClock == 1

\* The clock of the fuser and of the writer moves on.
Tick ==
    /\ f_now < MaxClock
    /\ f_now' = f_now + 1
    /\ UNCHANGED <<actions, saved_actions, frames, f_handled, f_last,
                   sa_consumed, save_action_queue, action_objects,
                   action_files, sa_saved, notFu>>

\* Server_Manager.process_saved_actions: a message with user_name and
\* Action_Reason goes to the queue of the SaveAction_Thread.
ProcessSavedActions ==
    /\ sa_consumed < Len(saved_actions)
    /\ LET payload == saved_actions[sa_consumed + 1]
       IN  save_action_queue' =
              IF payload.user_name # NoneValue
              THEN Append(save_action_queue, payload)
              ELSE save_action_queue
    /\ sa_consumed' = sa_consumed + 1
    /\ UNCHANGED <<actions, saved_actions, frames, f_handled, f_last, f_now,
                   action_objects, action_files, sa_saved, notFu>>

\* _build_default_object_key: the key of a payload that brings none, with the
\* timestamp time.gmtime() read at the call
BuildDefaultObjectKey(user_name, action_reason, utc_now) ==
    [action |-> action_reason.action, user |-> SafeUser(user_name),
     timestamp |-> utc_now, reason |-> action_reason.reason]

\* The name of the file of the fallback: Data/Actions/<Action>/<user>/
\* <time.localtime()>___<Action>___<Reason>.jpg
ActionFileName(user_name, action_reason, utc_now) ==
    [action |-> action_reason.action, user |-> user_name,
     time |-> utc_now, reason |-> action_reason.reason]

\* A write under a name replaces what the name held.
Written(objects, name, of) ==
    {o \in objects : o.name # name} \cup {[name |-> name, of |-> of]}

\* SaveAction_Thread.run taking one payload and save_User_Action on it: nothing
\* is written without an image; otherwise the JPEG goes to the store under the
\* payload's key, and to the local directory when the store raises.
SaveUserAction(store_ok) ==
    /\ save_action_queue # <<>>
    /\ LET payload == Head(save_action_queue)
           action_reason == ActionReason(payload.action, payload.reason)
           action_key ==
              IF payload.action_image_object_key = NoObjectKey
              THEN BuildDefaultObjectKey(payload.user_name, action_reason,
                                         f_now)
              ELSE payload.action_image_object_key
       IN  /\ save_action_queue' = Tail(save_action_queue)
           /\ IF ~payload.has_image
              THEN UNCHANGED <<action_objects, action_files, sa_saved>>
              ELSE /\ sa_saved' = sa_saved \cup {payload.of}
                   /\ IF store_ok
                      THEN /\ action_objects' =
                                Written(action_objects, action_key, payload.of)
                           /\ UNCHANGED action_files
                      ELSE /\ action_files' =
                                Written(action_files,
                                        ActionFileName(payload.user_name,
                                                       action_reason, f_now),
                                        payload.of)
                           /\ UNCHANGED action_objects
    /\ UNCHANGED <<actions, saved_actions, frames, f_handled, f_last, f_now,
                   sa_consumed, notFu>>

\* The verdicts of a frame the gateway stored: they carry the names and the
\* key of the frame.
StoredFrameVerdicts(verdicts) ==
    {v \in verdicts : v.has_names /\ v.image_object_key = FrameKey}

\* The fuser and the saved-action writer behind it.
FuSaveNext ==
    \/ \E payload \in StoredFrameVerdicts(FaceVerdicts),
          publish_ok_1 \in BOOLEAN, publish_ok_2 \in BOOLEAN,
          fetch_ok \in BOOLEAN, delete_ok \in BOOLEAN :
          ProcessFacePipelineResults(payload, publish_ok_1, publish_ok_2,
                                     fetch_ok, delete_ok)
    \/ \E payload \in StoredFrameVerdicts(PhoneVerdicts),
          publish_ok_1 \in BOOLEAN, publish_ok_2 \in BOOLEAN,
          fetch_ok \in BOOLEAN, delete_ok \in BOOLEAN :
          ProcessPhonePipelineResults(payload, publish_ok_1, publish_ok_2,
                                      fetch_ok, delete_ok)
    \/ Tick
    \/ ProcessSavedActions
    \/ \E store_ok \in BOOLEAN : SaveUserAction(store_ok)

(***************************************************************************)
(*                      gateway_server_service                             *)
(***************************************************************************)
\* Bounds of the gateway model.
MaxConns == 2

MaxFrames == 3

\* utilities.Datatypes.Action, Reason
ACTION_WARNING == 3

ACTION_ERROR == 4

REASON_BLOCKED_CLIENT == 8

REASON_PAUSED_CLIENT == 9

REASON_CLIENT_NOT_AVAILABLE == 11

REASON_RATE_LIMIT_EXCEEDED == 12

\* WebSocket close codes: close() without a code, close(1011), close(4003)
CLOSE_NORMAL == 1000

CLOSE_INTERNAL_ERROR == 1011

CLOSE_RATE_LIMIT == 4003

NotClosedByServer == 0

Conns == 1..MaxConns

\* user_name values of a frame message; "" stands for a missing or empty one.
UserNames == {"", "Bob", "bob", "amy"}

\* (data.get("user_name") or "").lower().strip()
LowerStrip(user_name) == IF user_name = "Bob" THEN "bob" ELSE user_name

\* What the environment answers while one frame is handled.
AllOk ==
    [paused |-> FALSE, blocked |-> FALSE, available |-> TRUE, allowed |-> TRUE,
     image_ok |-> TRUE, storage_ok |-> TRUE, has_ref_image |-> TRUE,
     publish_ok |-> TRUE, peer_open |-> TRUE]

Deviations(in) ==
    Cardinality({f \in DOMAIN AllOk \ {"peer_open"} : in[f] # AllOk[f]})

\* At most one check fails per frame; the peer may be gone when the server
\* sends.
FrameInputs ==
    {in \in [DOMAIN AllOk -> BOOLEAN] : Deviations(in) <= 1}

GwIdleConn ==
    [state |-> "idle", client_name |-> "", close_code |-> NotClosedByServer]

GwNoLast ==
    [frame |-> 0, client_name |-> "", denied |-> FALSE, peer_open |-> TRUE,
     sent |-> <<>>, store_paused |-> FALSE, store_blocked |-> FALSE,
     store_failed |-> FALSE]

\* _prime_status_store: the lists of Clients_status the gateway reads
NoClientsStatus == [paused_clients |-> {}, blocked_clients |-> {}]

\* No snapshot read yet in this iteration of the loop.
NoSnapshot ==
    [paused_clients |-> {NoneValue}, blocked_clients |-> {NoneValue},
     ok |-> FALSE]

\* The snapshot _read_status_snapshot returns: the lists of the store, or {}
\* when reading raised.
Snapshot(status, read_ok) ==
    [paused_clients |-> IF read_ok THEN status.paused_clients ELSE {},
     blocked_clients |-> IF read_ok THEN status.blocked_clients ELSE {},
     ok |-> read_ok]

\* The directories of the logs: the log root <base>/<namespace>/logs, its
\* parent (the namespace container) and a directory of one service under it.
LogDirs == {"namespace", "logs", "service"}

\* The log files, and the directory each one is in.
LogFiles == {"gateway.log", "server.log"}

DirOfLog(f) == IF f = "gateway.log" THEN "service" ELSE "logs"

\* The directories on the path of a directory, itself included
PathOfDir(d) ==
    IF d = "service" THEN {"namespace", "logs", "service"}
    ELSE IF d = "logs" THEN {"namespace", "logs"}
    ELSE {"namespace"}

LogWorkerIdle ==
    [pc |-> "sleep", cutoff |-> 0, todo |-> {}, removed_any |-> FALSE]

\* No file: the entry of a path that does not exist
NoLogFile == [exists |-> FALSE, mtime |-> 0, size |-> 0]

LogNoLast ==
    [file |-> "", stale |-> FALSE, unlink |-> "none", truncate_ok |-> FALSE,
     pruned |-> FALSE, after |-> NoLogFile]

\* The names the admin sets statuses for.
ApiUserNames == {"bob", "alice"}

ApiNoLast ==
    [n |-> 0, username |-> "", status |-> "normal", prev_status |-> "normal",
     before |-> NoClientsStatus, code |-> 0, success |-> FALSE]

\* The handler threads the ServerManager monitors.
Handlers == {"fastapi", "file_ops"}

\* Base_Thread.__init__: a thread that was not started, thread_started False.
NewHandler == [thread |-> "new", thread_started |-> FALSE]

\* The services with a supervising main().
Services ==
    {"gateway", "pipeline_worker", "server_manager", "pipelines_manager",
     "decision_manager"}

\* The threads of the pool that runs the endpoint.
AdmThreads == {1, 2}

\* Bound of the writes to the Clients_status hash.
MaxAdmWrites == 3

\* A request thread outside update_client_status, and the empty hash.
AdmIdle ==
    [pc |-> "idle", username |-> "", status |-> "normal",
     clients_status |-> [active_clients |-> {}, paused_clients |-> {},
                         blocked_clients |-> {},
                         connecting_internet_error |-> {}]]

GwInitWith(semaphore_sizes) ==
    /\ connection_semaphore \in semaphore_sizes
    /\ o_tasks = <<>>
    /\ o_sent = <<>>
    /\ cb_msgs = <<>>
    /\ th = [h \in Handlers |-> [handler |-> NewHandler, restarts |-> 0]]
    /\ th_main = "idle"
    /\ sup = [s \in Services |->
                [pc |-> "init", started |-> FALSE, alive |-> FALSE,
                 deaths |-> 0]]
    /\ adm_hash = AdmIdle.clients_status
    /\ adm_req = [t \in AdmThreads |-> AdmIdle]
    /\ adm_active = {}
    /\ adm_last = [n |-> 0, writer |-> "none", username |-> "",
                   before |-> AdmIdle.clients_status]
    /\ pub = [pc |-> "idle", class |-> "sync", max_retries |-> 0,
              attempt |-> 0, tried |-> 0, failed |-> 0, published |-> 0,
              connects |-> 0, stale_retry |-> FALSE, result |-> NoneValue]
    /\ pub_channel = [class \in {"sync", "async"} |-> NoneValue]
    /\ pub_calls = 0
    /\ api_last = ApiNoLast
    /\ log_time = 0
    /\ log_files = [f \in LogFiles |-> [exists |-> TRUE, mtime |-> 0, size |-> 1]]
    /\ log_dirs = LogDirs
    /\ log_worker = LogWorkerIdle
    /\ log_faults = 0
    /\ log_writes = 0
    /\ log_last = LogNoLast
    /\ t_clock = 0
    /\ t_frames = <<>>
    /\ t_verdicts = <<>>
    /\ t_emitted = <<>>
    /\ api_recent = [u \in ApiUserNames |-> "normal"]
    /\ registered_clients = {}
    /\ activate_clients = {}
    /\ ws = EmptyMap
    /\ gw_conn = [c \in Conns |-> GwIdleConn]
    /\ gw_frames = 0
    /\ gw_store = {}
    /\ clients_data = <<>>
    /\ gw_last = [c \in Conns |-> GwNoLast]
    /\ clients_status = NoClientsStatus
    /\ gw_status = [c \in Conns |-> NoSnapshot]
    /\ gw_actions = <<>>
    /\ a_published = 0
    /\ a_log = <<>>

\* handle_connection up to the first recv: await connection_semaphore.acquire()
Connect(c) ==
    /\ gw_conn[c].state = "idle"
    /\ connection_semaphore > 0
    /\ connection_semaphore' = connection_semaphore - 1
    /\ gw_conn' = [gw_conn EXCEPT ![c].state = "open"]
    /\ UNCHANGED <<registered_clients, activate_clients, ws, gw_frames,
                   gw_store, clients_data, gw_last, gwStatusVars,
                   gwActionVars>>
    /\ UNCHANGED notGw

\* __cleanup_client: the sets and the ws entry without client_name
CleanedRegistered(client_name, registered) ==
    IF client_name = "" THEN registered ELSE registered \ {client_name}

CleanedActive(client_name, active) ==
    IF client_name = "" THEN active ELSE active \ {client_name}

CleanedWs(client_name, sockets) ==
    IF client_name = "" \/ ~HasKey(sockets, client_name) THEN sockets
    ELSE DictPop(sockets, client_name)

\* the rate-limit test that never denies
RateLimited_Never(allowed) == FALSE

\* self._rate_limiter_manager and not self._rate_limiter_manager.allow_request(client_name)
RateLimited(allowed) == ~allowed

\* The way one iteration of the loop of handle_connection takes.
FramePath(client_name, in) ==
    IF client_name = "" THEN "no_name"
    ELSE IF in.paused THEN (IF in.peer_open THEN "paused" ELSE "send_failed")
    ELSE IF in.blocked THEN (IF in.peer_open THEN "blocked" ELSE "send_failed")
    ELSE IF ~in.available
    THEN (IF in.peer_open THEN "not_available" ELSE "send_failed")
    ELSE IF RateLimited(in.allowed)
    THEN (IF in.peer_open THEN "rate_limited" ELSE "send_failed")
    ELSE IF ~in.image_ok THEN "no_image"
    ELSE IF ~in.storage_ok THEN "store_failed"
    ELSE IF client_name \notin registered_clients /\ ~in.has_ref_image
    THEN "not_registered"
    ELSE IF ~in.publish_ok THEN "publish_failed"
    ELSE "published"

\* The message the iteration sends to the socket, if any.
FrameSent(path) ==
    IF path = "paused"
    THEN <<ActionReason(ACTION_WARNING, REASON_PAUSED_CLIENT)>>
    ELSE IF path = "blocked"
    THEN <<ActionReason(ACTION_ERROR, REASON_BLOCKED_CLIENT)>>
    ELSE IF path = "not_available"
    THEN <<ActionReason(ACTION_ERROR, REASON_CLIENT_NOT_AVAILABLE)>>
    ELSE IF path = "rate_limited"
    THEN <<ActionReason(ACTION_ERROR, REASON_RATE_LIMIT_EXCEEDED)>>
    ELSE <<>>

\* The close codes with the storage failure closed like any other error.
FrameCloseCode_NoInternal(path) ==
    IF path = "rate_limited" THEN CLOSE_RATE_LIMIT
    ELSE IF path = "send_failed" THEN NotClosedByServer
    ELSE CLOSE_NORMAL

\* The code the server closes the socket with when the iteration leaves the
\* loop (a handler that returns closes with the normal code).
FrameCloseCode(path) ==
    IF path = "rate_limited" THEN CLOSE_RATE_LIMIT
    ELSE IF path = "store_failed" THEN CLOSE_INTERNAL_ERROR
    ELSE IF path = "send_failed" THEN NotClosedByServer
    ELSE CLOSE_NORMAL

\* One iteration of the loop of handle_connection for a received frame: the
\* checks, store_frame, __register_new_client, publish_data, and, when the
\* loop is left, __cleanup_client and the release of the semaphore.
HandleFrame(c, user_name, in) ==
    LET client_name == LowerStrip(user_name)
        path == FramePath(client_name, in)
        frame == gw_frames + 1
        leaves == path \in {"send_failed", "blocked", "not_available",
                            "rate_limited", "store_failed", "not_registered",
                            "publish_failed"}
        passed_available == path \in {"rate_limited", "no_image", "store_failed",
                                      "not_registered", "publish_failed",
                                      "published"}
                              \/ (path = "send_failed" /\ ~in.paused
                                    /\ ~in.blocked /\ in.available)
        stored == path \in {"not_registered", "publish_failed", "published"}
        registers == path \in {"publish_failed", "published"}
                        /\ client_name \notin registered_clients
        active_1 == IF passed_available \/ path = "not_registered"
                    THEN activate_clients \cup {client_name}
                    ELSE activate_clients
        registered_1 == IF registers THEN registered_clients \cup {client_name}
                        ELSE registered_clients
        ws_1 == IF registers THEN DictSet(ws, client_name, c) ELSE ws
    IN  /\ gw_conn[c].state = "open"
        /\ gw_frames < MaxFrames
        /\ gw_frames' = frame
        /\ gw_store' = IF stored THEN gw_store \cup {frame} ELSE gw_store
        /\ clients_data' =
              IF path = "published"
              THEN Append(clients_data,
                     [client_name |-> client_name, frame |-> frame, conn |-> c,
                      image_object_key |-> IF stored THEN frame ELSE NoneValue,
                      second |-> \E o \in Conns \ {c} :
                                    /\ gw_conn[o].state = "open"
                                    /\ HasKey(ws, client_name)
                                    /\ ws[client_name] = o])
              ELSE clients_data
        /\ activate_clients' =
              IF leaves THEN CleanedActive(client_name, active_1) ELSE active_1
        /\ registered_clients' =
              IF leaves THEN CleanedRegistered(client_name, registered_1)
              ELSE registered_1
        /\ ws' = IF leaves THEN CleanedWs(client_name, ws_1) ELSE ws_1
        /\ connection_semaphore' =
              IF leaves THEN connection_semaphore + 1 ELSE connection_semaphore
        /\ gw_conn' = [gw_conn EXCEPT ![c] =
              [state |-> IF leaves THEN "closed" ELSE "open",
               client_name |-> client_name,
               close_code |-> IF leaves THEN FrameCloseCode(path)
                              ELSE NotClosedByServer]]
        /\ gw_last' = [gw_last EXCEPT ![c] =
              [frame |-> frame, client_name |-> client_name,
               denied |-> (client_name # "" /\ ~in.paused /\ ~in.blocked
                             /\ in.available /\ ~in.allowed),
               peer_open |-> in.peer_open,
               sent |-> FrameSent(path),
               store_paused |-> (gw_status[c].ok
                    /\ client_name \in clients_status.paused_clients),
               store_blocked |-> (gw_status[c].ok
                    /\ client_name \in clients_status.blocked_clients),
               store_failed |-> (path = "store_failed")]]
        /\ gw_status' = [gw_status EXCEPT ![c] = NoSnapshot]
        /\ UNCHANGED <<clients_status, gwActionVars>>
        /\ UNCHANGED notGw

\* The loop left without a frame by a handler whose finally block does not
\* release the semaphore.
LeaveLoop_NoRelease(c, timed_out) ==
    /\ gw_conn[c].state = "open"
    /\ gw_conn' = [gw_conn EXCEPT ![c].state = "closed",
                      ![c].close_code = IF timed_out THEN CLOSE_NORMAL
                                        ELSE NotClosedByServer]
    /\ activate_clients' = CleanedActive(gw_conn[c].client_name, activate_clients)
    /\ registered_clients' =
          CleanedRegistered(gw_conn[c].client_name, registered_clients)
    /\ ws' = CleanedWs(gw_conn[c].client_name, ws)
    /\ UNCHANGED <<connection_semaphore, gw_frames, gw_store, clients_data,
                   gw_last, gwStatusVars, gwActionVars>>
    /\ UNCHANGED notGw

\* The loop is left without a frame: recv raises ConnectionClosed (the peer
\* closed), or times out and the server closes; then __cleanup_client.
LeaveLoop(c, timed_out) ==
    /\ gw_conn[c].state = "open"
    /\ gw_conn' = [gw_conn EXCEPT ![c].state = "closed",
                      ![c].close_code = IF timed_out THEN CLOSE_NORMAL
                                        ELSE NotClosedByServer]
    /\ activate_clients' = CleanedActive(gw_conn[c].client_name, activate_clients)
    /\ registered_clients' =
          CleanedRegistered(gw_conn[c].client_name, registered_clients)
    /\ ws' = CleanedWs(gw_conn[c].client_name, ws)
    /\ connection_semaphore' = connection_semaphore + 1
    /\ UNCHANGED <<gw_frames, gw_store, clients_data, gw_last, gwStatusVars,
                   gwActionVars>>
    /\ UNCHANGED notGw

GwNext ==
    \/ \E c \in Conns : Connect(c)
    \/ \E c \in Conns, user_name \in UserNames, in \in FrameInputs :
          HandleFrame(c, user_name, in)
    \/ \E c \in Conns, timed_out \in BOOLEAN : LeaveLoop(c, timed_out)

\* The name the admin API sets a status for, and the user_name values of the
\* frames received meanwhile.
StatusNames == {"bob"}

StatusUserNames == {"", "Bob"}

\* Frames received while the admin changes statuses.
MaxStatusFrames == 2

\* status_update of FastAPIHandler: move username to the list of the status
\* (none for "normal"); nothing is written when it already has the status.
UpdateClientStatus(username, status) ==
    LET prev_status ==
            IF username \in clients_status.paused_clients THEN "pause"
            ELSE IF username \in clients_status.blocked_clients THEN "block"
            ELSE "normal"
        paused_clients == clients_status.paused_clients \ {username}
        blocked_clients == clients_status.blocked_clients \ {username}
    IN  /\ prev_status # status
        /\ clients_status' =
              [paused_clients |-> IF status = "pause"
                                  THEN paused_clients \cup {username}
                                  ELSE paused_clients,
               blocked_clients |-> IF status = "block"
                                   THEN blocked_clients \cup {username}
                                   ELSE blocked_clients]
        /\ UNCHANGED <<connection_semaphore, registered_clients,
                       activate_clients, ws, gw_conn, gw_frames, gw_store,
                       clients_data, gw_last, gw_status, gwActionVars>>
        /\ UNCHANGED notGw

\* Bounds of the model of the frames' times; the day is shortened so that
\* midnight falls inside the run.
MaxSeconds == 3

SecondsPerDay == 2

MaxTimedFrames == 2

MaxEmitted == 2

TimedClients == {"bob"}

\* time.strftime("%H-%M-%S", time.localtime(t)): the time of day, which
\* starts again at midnight
TimeOfDay(t) == t % SecondsPerDay

TimePasses ==
    /\ t_clock < MaxSeconds
    /\ t_clock' = t_clock + 1
    /\ UNCHANGED <<t_frames, t_verdicts, t_emitted>>
    /\ UNCHANGED notTime

\* handle_connection, lines 376-398: the envelope of a frame that passed the
\* checks, stamped with the time of day the frame was received
PublishFrame(client_name) ==
    /\ Len(t_frames) < MaxTimedFrames
    /\ t_frames' = Append(t_frames,
          [client_name |-> client_name, send_time |-> TimeOfDay(t_clock)])
    /\ UNCHANGED <<t_clock, t_verdicts, t_emitted>>
    /\ UNCHANGED notTime

\* A branch handler of the worker publishes the verdict of envelope i; the
\* verdict is the envelope updated, so it keeps client_name and send_time.
PublishVerdict(i, b) ==
    /\ i \in 1..Len(t_frames)
    /\ \A j \in 1..Len(t_verdicts) :
          ~(t_verdicts[j].frame = i /\ t_verdicts[j].branch = b)
    /\ t_verdicts' = Append(t_verdicts,
          [frame |-> i, branch |-> b, client_name |-> t_frames[i].client_name,
           send_time |-> t_frames[i].send_time])
    /\ UNCHANGED <<t_clock, t_frames, t_emitted>>
    /\ UNCHANGED notTime

\* face_decide_action and phone_decide_action copy client_name and send_time
\* of the verdict and stamp finish_time with the time of day; the action goes
\* through the actions queue to send_action, which sends it to the socket.
EmitAction(j, action_result) ==
    /\ j \in 1..Len(t_verdicts)
    /\ Len(t_emitted) < MaxEmitted
    /\ \A k \in 1..Len(t_emitted) : t_emitted[k].of # j
    /\ t_emitted' = Append(t_emitted,
          [of |-> j, client_name |-> t_verdicts[j].client_name,
           action |-> action_result, has_times |-> TRUE,
           send_time |-> t_verdicts[j].send_time,
           finish_time |-> TimeOfDay(t_clock)])
    /\ UNCHANGED <<t_clock, t_frames, t_verdicts>>
    /\ UNCHANGED notTime

\* handle_connection answering a frame itself: client_is_paused,
\* client_is_blocked, client_is_available and the rate limit send
\* {action, reason} to the socket and nothing is published.
EmitCheck(client_name, path) ==
    /\ Len(t_emitted) < MaxEmitted
    /\ FrameSent(path) # <<>>
    /\ t_emitted' = Append(t_emitted,
          [of |-> 0, client_name |-> client_name,
           action |-> FrameSent(path)[1], has_times |-> FALSE,
           send_time |-> 0, finish_time |-> 0])
    /\ UNCHANGED <<t_clock, t_frames, t_verdicts>>
    /\ UNCHANGED notTime

TimeNext ==
    \/ TimePasses
    \/ \E client_name \in TimedClients : PublishFrame(client_name)
    \/ \E i \in 1..MaxTimedFrames, b \in Branches : PublishVerdict(i, b)
    \/ \E j \in 1..(2 * MaxTimedFrames) :
          EmitAction(j, ActionReason(ACTION_SIGN_OUT, REASON_PHONE_DETECTION))
    \/ \E client_name \in TimedClients :
          \E path \in {"paused", "blocked", "not_available", "rate_limited"} :
            EmitCheck(client_name, path)

\* Bounds of the model of the log cleanup worker.
MaxLogTime == 3

MaxLogWrites == 2

MaxLogFaults == 1

\* retention_seconds, line 85, as one unit of log_time
RetentionSeconds == 1

LogTimePasses ==
    /\ log_time < MaxLogTime
    /\ log_time' = log_time + 1
    /\ UNCHANGED <<log_files, log_dirs, log_worker, log_faults, log_writes,
                   log_last>>
    /\ UNCHANGED notLog

\* A logger writes a line to its file, creating the file and its directories
\* when they are missing.
LoggerWrites(f) ==
    /\ log_writes < MaxLogWrites
    /\ log_writes' = log_writes + 1
    /\ log_files' = [log_files EXCEPT ![f] =
          [exists |-> TRUE, mtime |-> log_time, size |-> 1]]
    /\ log_dirs' = log_dirs \cup PathOfDir(DirOfLog(f))
    /\ UNCHANGED <<log_time, log_worker, log_faults, log_last>>
    /\ UNCHANGED notLog

\* _cleanup_loop, line 105, with no file ever older than the cutoff
IsOlder_Never(file, cutoff) == FALSE

\* _cleanup_loop, line 105: file_path.stat().st_mtime < cutoff
IsOlder(file, cutoff) == file.mtime < cutoff

\* _prune_log_file: what becomes of the file, and the value returned.
\*   unlink        "ok", "denied" (PermissionError) or "failed" (OSError)
\*   truncate_ok   open("wb") returns
\*   utc_now       the time of the truncation
PruneLogFile(file, unlink, truncate_ok, utc_now) ==
    IF unlink = "ok"
    THEN [file |-> NoLogFile, pruned |-> TRUE]
    ELSE IF unlink = "failed"
    THEN [file |-> file, pruned |-> FALSE]
    ELSE IF truncate_ok
    THEN [file |-> [exists |-> TRUE, mtime |-> utc_now, size |-> 0],
          pruned |-> TRUE]
    ELSE [file |-> file, pruned |-> FALSE]

\* _cleanup_loop, lines 101-103: the cutoff of a sweep and the files rglob
\* finds
CleanupLoopBegin ==
    /\ log_worker.pc = "sleep"
    /\ log_worker' =
          [pc |-> "files", cutoff |-> log_time - RetentionSeconds,
           todo |-> {f \in LogFiles : log_files[f].exists},
           removed_any |-> FALSE]
    /\ UNCHANGED <<log_time, log_files, log_dirs, log_faults, log_writes,
                   log_last>>
    /\ UNCHANGED notLog

\* _cleanup_loop, lines 103-111: one file of the sweep. A file that is gone
\* by now raises FileNotFoundError at stat and is passed over.
CleanupLoopFile(f, unlink, truncate_ok) ==
    LET file == log_files[f]
        stale == file.exists /\ IsOlder(file, log_worker.cutoff)
        faulty == stale /\ (unlink = "failed" \/ (unlink = "denied" /\ ~truncate_ok))
        result == IF stale
                  THEN PruneLogFile(file, unlink, truncate_ok, log_time)
                  ELSE [file |-> file, pruned |-> FALSE]
    IN  /\ log_worker.pc = "files"
        /\ f \in log_worker.todo
        /\ faulty => log_faults < MaxLogFaults
        /\ log_faults' = IF faulty THEN log_faults + 1 ELSE log_faults
        /\ log_files' = [log_files EXCEPT ![f] = result.file]
        /\ log_worker' = [log_worker EXCEPT
              !.todo = @ \ {f},
              !.removed_any = @ \/ result.pruned]
        /\ log_last' =
              [file |-> f, stale |-> stale, unlink |-> unlink,
               truncate_ok |-> truncate_ok, pruned |-> result.pruned,
               after |-> result.file]
        /\ UNCHANGED <<log_time, log_dirs, log_writes>>
        /\ UNCHANGED notLog

\* The directories that hold nothing, given the directories that exist
EmptyDirs(dirs) ==
    {d \in dirs :
        /\ \A f \in LogFiles : log_files[f].exists => DirOfLog(f) # d
        /\ \A e \in dirs \ {d} : d \notin PathOfDir(e)}

\* rmdir of the empty directories, the deepest first
RECURSIVE RemoveEmptyDirs(_)
RemoveEmptyDirs(dirs) ==
    IF EmptyDirs(dirs) = {} THEN dirs
    ELSE RemoveEmptyDirs(dirs \ EmptyDirs(dirs))

\* _cleanup_loop, lines 113-142: after the files, the empty directories under
\* the log root, the log root and its parent are removed when the sweep
\* pruned a file; then the worker sleeps.
CleanupLoopDirs ==
    /\ log_worker.pc = "files"
    /\ log_worker.todo = {}
    /\ log_dirs' = IF log_worker.removed_any THEN RemoveEmptyDirs(log_dirs)
                   ELSE log_dirs
    /\ log_worker' = [log_worker EXCEPT !.pc = "sleep"]
    /\ UNCHANGED <<log_time, log_files, log_faults, log_writes, log_last>>
    /\ UNCHANGED notLog

LogWorkerNext ==
    \/ CleanupLoopBegin
    \/ \E f \in LogFiles, unlink \in {"ok", "denied", "failed"},
          truncate_ok \in BOOLEAN : CleanupLoopFile(f, unlink, truncate_ok)
    \/ CleanupLoopDirs

LogNext ==
    \/ LogTimePasses
    \/ \E f \in LogFiles : LoggerWrites(f)
    \/ LogWorkerNext

\* Requests made of the admin API.
MaxUpdates == 4

\* update_client_status, lines 133-137: pop the name from a list, with the
\* pop left out
PopFrom_Kept(clients, username) == clients

\* update_client_status, lines 133-137: pop the name from a list
PopFrom(clients, username) == clients \ {username}

\* update_client_status, the whole handler, the requests coming one after
\* the other.
\*   get_ok   get_dict("Clients_status") returns (else HTTP 500)
\*   set_ok   set_dict("Clients_status", ...) returns (else HTTP 500)
UpdateClientStatusRequest(username, status, get_ok, set_ok) ==
    LET prev_status ==
            IF username \in clients_status.paused_clients THEN "pause"
            ELSE IF username \in clients_status.blocked_clients THEN "block"
            ELSE "normal"
        paused_clients == PopFrom(clients_status.paused_clients, username)
        blocked_clients == PopFrom(clients_status.blocked_clients, username)
        written == get_ok /\ prev_status # status /\ set_ok
        code == IF ~get_ok \/ (prev_status # status /\ ~set_ok)
                THEN 500 ELSE 200
    IN  /\ api_last.n < MaxUpdates
        /\ api_last' =
              [n |-> api_last.n + 1, username |-> username, status |-> status,
               prev_status |-> prev_status, before |-> clients_status,
               code |-> code, success |-> written]
        /\ clients_status' =
              IF written
              THEN [paused_clients |-> IF status = "pause"
                                       THEN paused_clients \cup {username}
                                       ELSE paused_clients,
                    blocked_clients |-> IF status = "block"
                                        THEN blocked_clients \cup {username}
                                        ELSE blocked_clients]
              ELSE clients_status
        /\ api_recent' =
              IF written THEN [api_recent EXCEPT ![username] = status]
              ELSE api_recent
        /\ UNCHANGED notApi

ApiNext ==
    \E username \in ApiUserNames, status \in {"normal", "pause", "block"},
       get_ok \in BOOLEAN, set_ok \in BOOLEAN :
        UpdateClientStatusRequest(username, status, get_ok, set_ok)

\* The top of an iteration of the loop of handle_connection:
\* _read_status_snapshot, which yields {} when the store cannot be read.
ReadStatusSnapshot(c, read_ok) ==
    /\ gw_conn[c].state = "open"
    /\ gw_status[c] = NoSnapshot
    /\ gw_status' = [gw_status EXCEPT ![c] = Snapshot(clients_status, read_ok)]
    /\ UNCHANGED <<connection_semaphore, registered_clients, activate_clients,
                   ws, gw_conn, gw_frames, gw_store, clients_data, gw_last,
                   clients_status, gwActionVars>>
    /\ UNCHANGED notGw

\* The rest of the iteration, the paused and blocked tests made on the
\* snapshot read at its top.
HandleFrameOnSnapshot(c, user_name, in) ==
    /\ gw_status[c] # NoSnapshot
    /\ gw_frames < MaxStatusFrames
    /\ in.paused = (LowerStrip(user_name) \in gw_status[c].paused_clients)
    /\ in.blocked = (LowerStrip(user_name) \in gw_status[c].blocked_clients)
    /\ HandleFrame(c, user_name, in)

\* recv raising or timing out, after the snapshot was read
LeaveLoopOnSnapshot(c, timed_out) ==
    /\ gw_status[c] # NoSnapshot
    /\ LeaveLoop(c, timed_out)

\* All combinations of answers, the paused and blocked ones being fixed by the
\* snapshot.
SnapshotInputs ==
    {in \in [DOMAIN AllOk -> BOOLEAN] :
        Cardinality({f \in DOMAIN AllOk \ {"peer_open", "paused", "blocked"} :
                        in[f] # AllOk[f]}) <= 1}

GwStatusNext ==
    \/ \E c \in Conns : Connect(c)
    \/ \E username \in StatusNames, status \in {"normal", "pause", "block"} :
          UpdateClientStatus(username, status)
    \/ \E c \in Conns, read_ok \in BOOLEAN : ReadStatusSnapshot(c, read_ok)
    \/ \E c \in Conns, user_name \in StatusUserNames, in \in SnapshotInputs :
          HandleFrameOnSnapshot(c, user_name, in)
    \/ \E c \in Conns, timed_out \in BOOLEAN : LeaveLoopOnSnapshot(c, timed_out)

\* Bound of the actions published to the gateway.
MaxActions == 2

\* client_name of an action: a client that connects, one that never does, and
\* an action without the field.
ActionNames == {"bob", "amy", NoneValue}

NoActionLog == [requeued |-> FALSE, outcome |-> "none", conn |-> 0]

\* The fuser's publish_data(action_result, "actions"), seen from the queue.
PublishAction(client_name) ==
    /\ a_published < MaxActions
    /\ a_published' = a_published + 1
    /\ gw_actions' = Append(gw_actions,
                            [id |-> a_published + 1, client_name |-> client_name])
    /\ a_log' = Append(a_log, NoActionLog)
    /\ UNCHANGED <<connection_semaphore, registered_clients, activate_clients,
                   ws, gw_conn, gw_frames, gw_store, clients_data, gw_last,
                   gwStatusVars>>
    /\ UNCHANGED notGw

\* The queue without its i-th message.
WithoutMessage(queue, i) ==
    [j \in 1..(Len(queue) - 1) |-> IF j < i THEN queue[j] ELSE queue[j + 1]]

\* A consumer that acknowledges the message it could not deliver.
Nack_Drop(queue, i) == WithoutMessage(queue, i)

\* message.nack(requeue=True): the message goes back to the queue.
Nack(queue, i) == queue

\* "client_name and client_name in self.ws"
HasSocket(client_name) == client_name # NoneValue /\ HasKey(ws, client_name)

\* The callback of consume_messages around send_action for the i-th message
\* of the queue: sent to ws[client_name] and acknowledged; acknowledged as
\* well when the send raises ConnectionClosed; rejected with requeue when
\* there is no socket for client_name.
SendAction(i, peer_open) ==
    LET action == gw_actions[i]
        client_name == action.client_name
    IN  /\ i \in 1..Len(gw_actions)
        /\ IF HasSocket(client_name)
           THEN /\ gw_actions' = WithoutMessage(gw_actions, i)
                /\ a_log' = [a_log EXCEPT ![action.id].outcome =
                                 IF peer_open THEN "sent" ELSE "send_failed",
                             ![action.id].conn = ws[client_name]]
           ELSE /\ gw_actions' = Nack(gw_actions, i)
                /\ a_log' = [a_log EXCEPT ![action.id].requeued = TRUE]
        /\ UNCHANGED <<connection_semaphore, registered_clients,
                       activate_clients, ws, gw_conn, gw_frames, gw_store,
                       clients_data, gw_last, gwStatusVars, a_published>>
        /\ UNCHANGED notGw

\* The frames of the clients while actions arrive: every check passing.
ActionUserNames == {"Bob"}

GwActionsNext ==
    \/ \E c \in Conns : Connect(c)
    \/ \E c \in Conns, user_name \in ActionUserNames :
          HandleFrame(c, user_name, AllOk)
    \/ \E c \in Conns, timed_out \in BOOLEAN : LeaveLoop(c, timed_out)
    \/ \E client_name \in ActionNames : PublishAction(client_name)
    \/ \E i \in 1..MaxActions, peer_open \in BOOLEAN : SendAction(i, peer_open)

\* The broker hands the first ready message of the actions queue to the
\* consumer, whose channel sets no prefetch limit: the callback of
\* consume_messages becomes a task of the event loop.
DeliverAction ==
    /\ gw_actions # <<>>
    /\ o_tasks' = Append(o_tasks, Head(gw_actions))
    /\ gw_actions' = Tail(gw_actions)
    /\ UNCHANGED <<a_published, a_log, o_sent>>
    /\ UNCHANGED notOrder

\* A requeued message goes back to the place it had in the queue: before
\* the messages published after it.
Requeued(queue, action) ==
    LET before == SelectSeq(queue, LAMBDA m : m.id < action.id)
        after == SelectSeq(queue, LAMBDA m : m.id > action.id)
    IN  before \o <<action>> \o after

\* The oldest callback task runs send_action: the action is sent on
\* ws[client_name] and acknowledged, or, without a socket for client_name,
\* RequeueMessage makes the callback reject it with requeue.
RunCallback ==
    /\ o_tasks # <<>>
    /\ LET action == Head(o_tasks)
       IN  IF HasSocket(action.client_name)
           THEN /\ o_sent' = Append(o_sent,
                                 [id |-> action.id,
                                  client_name |-> action.client_name,
                                  conn |-> ws[action.client_name]])
                /\ a_log' = [a_log EXCEPT ![action.id].outcome = "sent",
                                  ![action.id].conn = ws[action.client_name]]
                /\ UNCHANGED gw_actions
           ELSE /\ gw_actions' = Requeued(gw_actions, action)
                /\ a_log' = [a_log EXCEPT ![action.id].requeued = TRUE]
                /\ UNCHANGED o_sent
    /\ o_tasks' = Tail(o_tasks)
    /\ UNCHANGED a_published
    /\ UNCHANGED notOrder

\* The actions of one client delivered while the client registers.
GwOrderNext ==
    \/ \E c \in Conns : Connect(c)
    \/ \E c \in Conns, user_name \in ActionUserNames :
          HandleFrame(c, user_name, AllOk)
    \/ \E c \in Conns, timed_out \in BOOLEAN : LeaveLoop(c, timed_out)
    \/ PublishAction("bob")
    \/ DeliverAction
    \/ RunCallback

(***************************************************************************)
(*                      RMQ: the consumer callbacks                        *)
(***************************************************************************)
\* Bound of the messages delivered to the callbacks.
MaxCallbacks == 3

\* What the handler does with a payload: it returns, raises RequeueMessage,
\* or raises another exception.
HandlerOutcomes == {"return", "requeue", "exception"}

\* pkl.loads raising UnpicklingError instead of the handler running.
UnpicklingError == "unpickling_error"

\* The calls that settle a message.
Ack == "ack"

NackRequeue == "nack_requeue"

NackDrop == "nack_drop"

\* Sync_RMQ.consume_messages: basic_ack after the handler returned, basic_nack
\* in the except clauses (the same in _finalize and in the callback).
SyncSettle(outcome) ==
    IF outcome = "return" THEN <<Ack>>
    ELSE IF outcome = "requeue" THEN <<NackRequeue>>
    ELSE <<NackDrop>>

\* The except clauses of the callback of Async_RMQ.consume_messages.
AsyncExcept(outcome) ==
    IF outcome = "return" THEN <<>>
    ELSE IF outcome = UnpicklingError THEN <<NackDrop>>
    ELSE <<NackRequeue>>

\* A message.process() that acknowledges whatever the body did.
ProcessExit_Always(calls) == <<Ack>>

\* Leaving "async with message.process(ignore_processed=True)" without an
\* exception: the message is acknowledged unless the body settled it.
ProcessExit(calls) == IF calls = <<>> THEN <<Ack>> ELSE <<>>

\* The calls that reached the broker: none when the channel is broken.
Settled(calls, channel_ok) == IF channel_ok THEN calls ELSE <<>>

CbRecord(wrapper, outcome, stage, calls, channel_ok, escaped) ==
    [wrapper |-> wrapper, outcome |-> outcome, stage |-> stage,
     settles |-> Settled(calls, channel_ok), channel_ok |-> channel_ok,
     escaped |-> escaped]

\* The callback of Sync_RMQ.consume_messages without an executor.  A settle
\* call that raises leaves the callback: the one in the try block is followed
\* by the basic_nack of "except Exception", which raises as well.
CallbackSync(outcome, channel_ok) ==
    /\ Len(cb_msgs) < MaxCallbacks
    /\ cb_msgs' = Append(cb_msgs,
                     CbRecord("sync", outcome, "settled", SyncSettle(outcome),
                              channel_ok, ~channel_ok))
    /\ UNCHANGED notCb

\* The callback of Async_RMQ.consume_messages.  A nack that raises leaves
\* the except clause and the callback.
CallbackAsync(outcome, channel_ok) ==
    /\ Len(cb_msgs) < MaxCallbacks
    /\ LET calls == AsyncExcept(outcome)
       IN  cb_msgs' = Append(cb_msgs,
                        CbRecord("async", outcome, "settled",
                                 calls \o ProcessExit(calls), channel_ok,
                                 ~channel_ok))
    /\ UNCHANGED notCb

\* The callback of Sync_RMQ.consume_messages with an executor: the payload
\* is loaded and the handler submitted; a payload that does not load is
\* rejected at once.
CallbackSubmit(load_ok, channel_ok) ==
    /\ Len(cb_msgs) < MaxCallbacks
    /\ cb_msgs' = Append(cb_msgs,
          IF load_ok
          THEN CbRecord("executor", "none", "running", <<>>, TRUE, FALSE)
          ELSE CbRecord("executor", UnpicklingError, "settled",
                        SyncSettle(UnpicklingError), channel_ok, ~channel_ok))
    /\ UNCHANGED notCb

\* The handler ends in a thread of the executor; finalize_future schedules
\* _finalize on the connection's thread.
HandlerFinishes(i, outcome) ==
    /\ i \in 1..Len(cb_msgs)
    /\ cb_msgs[i].stage = "running"
    /\ cb_msgs' = [cb_msgs EXCEPT ![i].stage = "done", ![i].outcome = outcome]
    /\ UNCHANGED notCb

\* _finalize: fut.result(), then the settle call, whose failure is logged.
RunFinalize(i, channel_ok) ==
    /\ i \in 1..Len(cb_msgs)
    /\ cb_msgs[i].stage = "done"
    /\ cb_msgs' = [cb_msgs EXCEPT ![i] =
          CbRecord("executor", cb_msgs[i].outcome, "settled",
                   SyncSettle(cb_msgs[i].outcome), channel_ok, FALSE)]
    /\ UNCHANGED notCb

CbNext ==
    \/ \E outcome \in HandlerOutcomes \cup {UnpicklingError},
          channel_ok \in BOOLEAN : CallbackSync(outcome, channel_ok)
    \/ \E outcome \in HandlerOutcomes \cup {UnpicklingError},
          channel_ok \in BOOLEAN : CallbackAsync(outcome, channel_ok)
    \/ \E load_ok, channel_ok \in BOOLEAN : CallbackSubmit(load_ok, channel_ok)
    \/ \E i \in 1..MaxCallbacks, outcome \in HandlerOutcomes :
          HandlerFinishes(i, outcome)
    \/ \E i \in 1..MaxCallbacks, channel_ok \in BOOLEAN :
          RunFinalize(i, channel_ok)

(***************************************************************************)
(*                      RMQ: publish_data                                  *)
(***************************************************************************)
\* RMQ_MAX_RETRIES: its default, the largest value tried here.
MaxRetries == 3

\* Bound of the publish_data calls.
MaxPublishCalls == 2

RmqClasses == {"sync", "async"}

\* What an attempt meets: the publish goes through, an AMQPConnectionError
\* or AMQPChannelError is raised, or another exception is.
AttemptOutcomes == {"ok", "amqp_error", "other_error"}

\* A loop that always finds retries left.
RetriesLeft_Always(attempt, max_retries) == TRUE

\* "if attempt < self.max_retries - 1"
RetriesLeft(attempt, max_retries) == attempt < max_retries - 1

\* The except clause that retries: Sync_RMQ retries the AMQP connection and
\* channel errors only, Async_RMQ every exception.
Retried(class, outcome) ==
    outcome = "amqp_error" \/ (class = "async" /\ outcome = "other_error")

\* publish_data is called: "for attempt in range(self.max_retries)" begins.
BeginPublish(class, max_retries) ==
    /\ pub.pc # "loop"
    /\ pub_calls < MaxPublishCalls
    /\ pub_calls' = pub_calls + 1
    /\ pub' = [pc |-> "loop", class |-> class, max_retries |-> max_retries,
               attempt |-> 0, tried |-> 0, failed |-> 0, published |-> 0,
               connects |-> 0, stale_retry |-> FALSE, result |-> NoneValue]
    /\ UNCHANGED pub_channel
    /\ UNCHANGED notPub

\* One iteration of the loop: create_producer when there is no channel, the
\* publish, and the except clause the iteration ends in.  A connection that
\* cannot be made raises AMQPConnectionError.
PublishAttempt(outcome, connect_ok) ==
    LET class == pub.class
        connects == pub_channel[class] = NoneValue
        met == IF connects /\ ~connect_ok THEN "amqp_error" ELSE outcome
        channel_1 == IF connects /\ connect_ok THEN "open" ELSE pub_channel[class]
        tried == [pub EXCEPT !.tried = @ + 1,
                     !.connects = IF connects /\ connect_ok THEN @ + 1 ELSE @,
                     !.stale_retry = @ \/ (pub.attempt > 0 /\ ~connects)]
    IN  /\ pub.pc = "loop"
        /\ pub.attempt < pub.max_retries
        /\ IF met = "ok"
           THEN /\ pub' = [tried EXCEPT !.pc = "done", !.published = @ + 1,
                                !.result = PyTrue]
                /\ pub_channel' = [pub_channel EXCEPT ![class] = channel_1]
           ELSE IF Retried(class, met) /\ RetriesLeft(pub.attempt, pub.max_retries)
           THEN /\ pub' = [tried EXCEPT !.failed = @ + 1, !.attempt = @ + 1]
                /\ pub_channel' = [pub_channel EXCEPT ![class] = NoneValue]
           ELSE /\ pub' = [tried EXCEPT !.pc = "done", !.failed = @ + 1,
                                !.result = "raised"]
                /\ pub_channel' = [pub_channel EXCEPT ![class] = channel_1]
        /\ UNCHANGED pub_calls
        /\ UNCHANGED notPub

\* The loop ends without a return or a raise: "return False".
PublishLoopEnds ==
    /\ pub.pc = "loop"
    /\ pub.attempt >= pub.max_retries
    /\ pub' = [pub EXCEPT !.pc = "done", !.result = PyFalse]
    /\ UNCHANGED <<pub_channel, pub_calls>>
    /\ UNCHANGED notPub

PubNext ==
    \/ \E class \in RmqClasses, max_retries \in 0..MaxRetries :
          BeginPublish(class, max_retries)
    \/ \E outcome \in AttemptOutcomes, connect_ok \in BOOLEAN :
          PublishAttempt(outcome, connect_ok)
    \/ PublishLoopEnds

(***************************************************************************)
(*             Clients_status: the admin API and the gateway               *)
(***************************************************************************)
\* RedisHandler.set_dict: hset of the fields of the mapping, the other fields
\* of the hash staying as they are.
SetDict(hash, mapping) ==
    [k \in DOMAIN hash |-> IF k \in DOMAIN mapping THEN mapping[k] ELSE hash[k]]

\* update_client_status up to its answer "already in": get_dict of the whole
\* hash, kept by the request.
AdminGetDict(t, username, status) ==
    LET prev_status == IF username \in adm_hash.paused_clients THEN "pause"
                       ELSE IF username \in adm_hash.blocked_clients THEN "block"
                       ELSE "normal"
    IN  /\ adm_req[t].pc = "idle"
        /\ adm_last.n < MaxAdmWrites
        /\ adm_req' = [adm_req EXCEPT ![t] =
              IF prev_status = status THEN AdmIdle
              ELSE [pc |-> "read", username |-> username, status |-> status,
                    clients_status |-> adm_hash]]
        /\ UNCHANGED <<adm_hash, adm_active, adm_last>>
        /\ UNCHANGED notAdm

\* The rest of update_client_status: the two lists without username, the
\* target list with it, and set_dict of the whole dict that was read.
AdminSetDict(t) ==
    LET req == adm_req[t]
        paused == (req.clients_status.paused_clients \ {req.username})
                    \cup (IF req.status = "pause" THEN {req.username} ELSE {})
        blocked == (req.clients_status.blocked_clients \ {req.username})
                    \cup (IF req.status = "block" THEN {req.username} ELSE {})
        mapping == [req.clients_status EXCEPT !.paused_clients = paused,
                                              !.blocked_clients = blocked]
    IN  /\ req.pc = "read"
        /\ adm_hash' = SetDict(adm_hash, mapping)
        /\ adm_last' = [n |-> adm_last.n + 1, writer |-> "admin",
                        username |-> req.username, before |-> adm_hash]
        /\ adm_req' = [adm_req EXCEPT ![t] = AdmIdle]
        /\ UNCHANGED adm_active
        /\ UNCHANGED notAdm

\* The gateway's __register_new_client or __cleanup_client, then
\* _update_active_clients_status: set_dict of active_clients alone.
UpdateActiveClientsStatus(client_name) ==
    LET active == IF client_name \in adm_active
                  THEN adm_active \ {client_name}
                  ELSE adm_active \cup {client_name}
    IN  /\ adm_last.n < MaxAdmWrites
        /\ adm_active' = active
        /\ adm_hash' = SetDict(adm_hash, [active_clients |-> active])
        /\ adm_last' = [n |-> adm_last.n + 1, writer |-> "gateway",
                        username |-> client_name, before |-> adm_hash]
        /\ UNCHANGED adm_req
        /\ UNCHANGED notAdm

\* The gateway's _append_status_entry("connecting_internet_error", name).
AppendStatusEntry(client_name) ==
    /\ adm_last.n < MaxAdmWrites
    /\ client_name \notin adm_hash.connecting_internet_error
    /\ adm_hash' = SetDict(adm_hash,
          [connecting_internet_error |->
              adm_hash.connecting_internet_error \cup {client_name}])
    /\ adm_last' = [n |-> adm_last.n + 1, writer |-> "gateway",
                    username |-> client_name, before |-> adm_hash]
    /\ UNCHANGED <<adm_req, adm_active>>
    /\ UNCHANGED notAdm

AdmNext ==
    \/ \E t \in AdmThreads, username \in ApiUserNames,
          status \in {"normal", "pause", "block"} :
          AdminGetDict(t, username, status)
    \/ \E t \in AdmThreads : AdminSetDict(t)
    \/ \E client_name \in ApiUserNames : UpdateActiveClientsStatus(client_name)
    \/ \E client_name \in ApiUserNames : AppendStatusEntry(client_name)

(***************************************************************************)
(*             ServerManager: the handler threads and the monitor          *)
(***************************************************************************)
\* Bound of the restarts of a handler.
MaxRestarts == 2

\* Start_thread up to thread.start(): the thread exists, run() has not begun.
StartThreadBegins(h) ==
    /\ th_main = "idle"
    /\ th[h].handler = NewHandler
    /\ th' = [th EXCEPT ![h].handler.thread = "started"]
    /\ th_main' = h
    /\ UNCHANGED notThr

\* The rest of Start_thread: self.thread_started = True
StartThreadEnds(h) ==
    /\ th_main = h
    /\ th' = [th EXCEPT ![h].handler.thread_started = TRUE]
    /\ th_main' = "idle"
    /\ UNCHANGED notThr

\* run() begins in the new thread: self.thread_started = True
RunBegins(h) ==
    /\ th[h].handler.thread = "started"
    /\ th' = [th EXCEPT ![h].handler.thread = "running",
                        ![h].handler.thread_started = TRUE]
    /\ UNCHANGED th_main
    /\ UNCHANGED notThr

\* run() ends (the server stopped, or an exception was logged):
\* self.thread_started = False, and the thread finishes.
RunReturns(h) ==
    /\ th[h].handler.thread = "running"
    /\ th' = [th EXCEPT ![h].handler.thread = "finished",
                        ![h].handler.thread_started = FALSE]
    /\ UNCHANGED th_main
    /\ UNCHANGED notThr

\* The monitor loop finds is_started() False and restarts the handler: a new
\* instance, whose Start_thread it enters.
MonitorRestarts(h) ==
    /\ th_main = "idle"
    /\ th[h].handler.thread = "finished"
    /\ ~th[h].handler.thread_started
    /\ th[h].restarts < MaxRestarts
    /\ th' = [th EXCEPT ![h] =
                 [handler |-> [NewHandler EXCEPT !.thread = "started"],
                  restarts |-> th[h].restarts + 1]]
    /\ th_main' = h
    /\ UNCHANGED notThr

ThrNext ==
    \/ \E h \in Handlers : StartThreadBegins(h)
    \/ \E h \in Handlers : StartThreadEnds(h)
    \/ \E h \in Handlers : RunBegins(h)
    \/ \E h \in Handlers : RunReturns(h)
    \/ \E h \in Handlers : MonitorRestarts(h)

(***************************************************************************)
(*             The services' supervising loops                             *)
(***************************************************************************)
\* Bound of the deaths of a child process.
MaxDeaths == 2

\* Base_process.Start_process: multiprocessing.Process.start(), which raises
\* AssertionError ("cannot start a process twice") on a process that was
\* started before; main() logs the exception and leaves its loop.
StartProcess(proc) ==
    IF proc.started THEN [proc EXCEPT !.pc = "exited"]
    ELSE [proc EXCEPT !.started = TRUE, !.alive = TRUE]

\* main() up to its loop: the first Start_process.
SupervisorStarts(s) ==
    /\ sup[s].pc = "init"
    /\ sup' = [sup EXCEPT ![s] = StartProcess([sup[s] EXCEPT !.pc = "monitoring"])]
    /\ UNCHANGED notSup

\* The child process ends.
ChildDies(s) ==
    /\ sup[s].alive
    /\ sup[s].deaths < MaxDeaths
    /\ sup' = [sup EXCEPT ![s].alive = FALSE, ![s].deaths = @ + 1]
    /\ UNCHANGED notSup

\* One round of "while True": after the sleep, Start_process when the child
\* is not alive.
SupervisorChecks(s) ==
    /\ sup[s].pc = "monitoring"
    /\ sup' = [sup EXCEPT ![s] =
                  IF sup[s].alive THEN sup[s] ELSE StartProcess(sup[s])]
    /\ UNCHANGED notSup

SupNext ==
    \/ \E s \in Services : SupervisorStarts(s)
    \/ \E s \in Services : ChildDies(s)
    \/ \E s \in Services : SupervisorChecks(s)

(***************************************************************************)
(*                      Specifications                                     *)
(***************************************************************************)
vars == <<rlVars, dispVars, wkVars, fuVars, gwVars>>

RLRest == RLInitWith({}, {1})

DispRest == DispInitWith(1)

GwRest == GwInitWith({1})

\* One caller thread (the gateway's event loop) and the sweep thread.
InitRL == RLInitWith({1}, 1..MaxCfgClients) /\ DispRest /\ WkInit /\ FuInit /\ GwRest

SpecRL == InitRL /\ [][RLCallNext \/ RLSweepNext]_vars

\* One caller thread alone: the calls of test_rate_limiter.py, whose sweep
\* (cleanup_interval 50 ms) does not run inside a call.
SpecRLSeq == InitRL /\ [][RLCallNext]_vars

\* Two threads calling allowRequest concurrently.
InitRLConc == RLInitWith({1, 2}, 1..MaxCfgClients) /\ DispRest /\ WkInit /\ FuInit /\ GwRest

SpecRLConc == InitRLConc /\ [][RLCallNext]_vars

\* One caller thread, the sweep thread and the callers of shutdown.
InitRLLife == RLInitWith({1}, {MaxCfgClients}) /\ DispRest /\ WkInit /\ FuInit /\ GwRest

SpecRLLife == InitRLLife /\ [][RLLifeNext]_vars

\* The manager: get_instance, allow_request and shutdown called one after the
\* other on the managers the callers hold.
InitManager == RLRest /\ DispRest /\ WkInit /\ FuInit /\ GwRest

SpecManager == InitManager /\ [][MgNext]_vars

\* The same under the scheduling of the threads: the sweep thread, a call
\* that has begun and a shutdown that has begun keep running.
SpecRLLifeFair ==
    /\ SpecRLLife
    /\ WF_vars(RLSweepNext \/ SweepExit)
    /\ WF_vars(RLCallSteps)
    /\ WF_vars(RLShutdownSteps)

\* The dispatcher with 2..MaxPipelines pipelines and the workers' queue
\* declarations.
InitDisp ==
    RLRest /\ WkInit /\ FuInit /\ GwRest /\ \E n \in 2..MaxPipelines : DispInitWith(n)

SpecDisp == InitDisp /\ [][DispNext]_vars

\* The worker of one pipeline: its input queues, its two consumers, its
\* results.
InitWorker == RLRest /\ DispRest /\ WkInit /\ FuInit /\ GwRest

SpecWorker == InitWorker /\ [][WkNext]_vars

\* The reference embeddings of a worker while the enrolment image is written.
InitRef == RLRest /\ DispRest /\ WkInit /\ FuInit /\ GwRest

SpecRef == InitRef /\ [][RefNext]_vars

\* The two branch consumers of a worker and their executor.
InitExec == RLRest /\ DispRest /\ WkInit /\ FuInit /\ GwRest

SpecExec == InitExec /\ [][ExecNext]_vars

\* The payloads of a frame on its way through the queues.
InitPayload == RLRest /\ DispRest /\ WkInit /\ FuInit /\ GwRest

SpecPayload == InitPayload /\ [][PayloadNext]_vars

\* The fuser consuming face and phone verdicts.
InitFuser == RLRest /\ DispRest /\ WkInit /\ FuInit /\ GwRest

SpecFuser == InitFuser /\ [][FuNext]_vars

\* The fuser with the saved-action writer of the server manager behind it.
InitFuserSave == RLRest /\ DispRest /\ WkInit /\ FuInit /\ GwRest

SpecFuserSave == InitFuserSave /\ [][FuSaveNext]_vars

\* The gateway serving up to MaxConns connections.
InitGateway ==
    RLRest /\ DispRest /\ WkInit /\ FuInit /\ GwInitWith(1..MaxConns)

SpecGateway == InitGateway /\ [][GwNext]_vars

\* The gateway, one connection at a time, with the admin changing statuses.
InitGatewayStatus == RLRest /\ DispRest /\ WkInit /\ FuInit /\ GwRest

SpecGatewayStatus == InitGatewayStatus /\ [][GwStatusNext]_vars

\* The log cleanup worker, the loggers and the clock; the worker's thread is
\* a daemon that loops for ever and sleeps a finite time between sweeps.
InitLog == RLRest /\ DispRest /\ WkInit /\ FuInit /\ GwRest

SpecLog == InitLog /\ [][LogNext]_vars

SpecLogFair == SpecLog /\ WF_vars(LogWorkerNext)

\* Frames, verdicts and actions with their times.
InitTime == RLRest /\ DispRest /\ WkInit /\ FuInit /\ GwRest

SpecTime == InitTime /\ [][TimeNext]_vars

\* The admin API moving names between the paused and the blocked list.
InitApi == RLRest /\ DispRest /\ WkInit /\ FuInit /\ GwRest

SpecApi == InitApi /\ [][ApiNext]_vars

\* The gateway consuming the actions queue while clients come and go.
InitGatewayActions ==
    RLRest /\ DispRest /\ WkInit /\ FuInit /\ GwInitWith({MaxConns})

SpecGatewayActions == InitGatewayActions /\ [][GwActionsNext]_vars

\* The gateway's consumer with the actions of a client that registers late.
InitGatewayOrder ==
    RLRest /\ DispRest /\ WkInit /\ FuInit /\ GwInitWith({MaxConns})

SpecGatewayOrder == InitGatewayOrder /\ [][GwOrderNext]_vars

\* Messages delivered to the three consumer callbacks.
InitCb == RLRest /\ DispRest /\ WkInit /\ FuInit /\ GwRest

SpecCb == InitCb /\ [][CbNext]_vars

\* publish_data called on a producer whose broker comes and goes.
InitPub == RLRest /\ DispRest /\ WkInit /\ FuInit /\ GwRest

SpecPub == InitPub /\ [][PubNext]_vars

\* The admin API and the gateway writing Clients_status at the same time.
InitAdm == RLRest /\ DispRest /\ WkInit /\ FuInit /\ GwRest

SpecAdm == InitAdm /\ [][AdmNext]_vars

\* The ServerManager starting and monitoring its handler threads.
InitThr == RLRest /\ DispRest /\ WkInit /\ FuInit /\ GwRest

SpecThr == InitThr /\ [][ThrNext]_vars

\* The services' main() functions and their child processes.
InitSup == RLRest /\ DispRest /\ WkInit /\ FuInit /\ GwRest

SpecSup == InitSup /\ [][SupNext]_vars

\* Every supervising loop keeps turning (it sleeps one second a round) and
\* every main() gets to start its child.
SpecSupFair ==
    /\ SpecSup
    /\ \A s \in Services :
          WF_vars(SupervisorStarts(s)) /\ WF_vars(SupervisorChecks(s))

(***************************************************************************)
(*                      Claims on the RateLimiter                          *)
(***************************************************************************)
\* The distinct ids with an admission whose time lies in [s, s + window_size).
AdmittedIn(s) ==
    {c \in RLIds : \E a \in admitted :
        a[1] = c /\ a[2] >= s /\ a[2] < s + window_size}

\* C2: under any interleaving of concurrent allowRequest calls, the number of
\* distinct client ids admitted within any window of length window_size never
\* exceeds max_clients.
C2_AdmittedWithinWindow ==
    \A s \in 0..(WindowSize + MaxTime) : Cardinality(AdmittedIn(s)) <= max_clients

\* C3: when exactly max_clients distinct ids are active in the current window,
\* allowRequest for an id that is not active returns False and writes none of
\* the maps, and allowRequest for an already-active id returns True and sets
\* its last_seen to the call's current_time.
C3_CapacityBoundary ==
    \A t \in callers :
        /\ rl_obs[t].pre = "full_new" =>
              /\ ~rl_obs[t].wrote
              /\ rl[t].pc \in {"idle", "decide"}
              /\ rl_obs[t].ret \in {"none", "deny"}
              /\ (rl[t].pc = "idle" => rl_obs[t].ret = "deny")
        /\ rl_obs[t].pre = "full_active" =>
              /\ rl_obs[t].ret \in {"none", "allow"}
              /\ (rl[t].pc = "idle" =>
                    rl_obs[t].ret = "allow" /\ rl_obs[t].refreshed)

(***************************************************************************)
(*                      Claims on the dispatcher                           *)
(***************************************************************************)
\* The payload has neither the key client_name nor the key user_name.
LacksBothNames(payload) ==
    payload.client_name = Absent /\ payload.user_name = Absent

\* C4: with N pipelines the identified envelopes are dealt to pipeline ids
\* 0..N-1 in turn, so after k*N of them every pipeline has been the target of
\* exactly k (and between multiples the first ones are one ahead); a message
\* that is not a dict or lacks both client_name and user_name is dropped: it is
\* not published and the round-robin pointer stays where it was.
C4_RoundRobin ==
    /\ \A p \in 0..(num_pipelines - 1) :
          pipeline_message_counts[p] =
             (d_identified \div num_pipelines)
                + (IF p < d_identified % num_pipelines THEN 1 ELSE 0)
    /\ (d_identified % num_pipelines = 0 =>
          \A p \in 0..(num_pipelines - 1) :
             pipeline_message_counts[p] * num_pipelines = d_identified)
    /\ (d_last.settled # "none"
          /\ (~d_last.payload.isdict \/ LacksBothNames(d_last.payload))
        => /\ ~d_last.published
           /\ d_last.to = {}
           /\ d_last.key = NoKey
           /\ d_last.after = d_last.before)

\* Two full rounds have been dealt and the message handled last, a dict with
\* neither name, was dropped.
C4_Witness ==
    /\ d_identified = 2 * num_pipelines
    /\ d_last.settled = "ack"
    /\ d_last.payload.isdict
    /\ LacksBothNames(d_last.payload)

\* The two input queues of the worker of pipeline p.
InputQueues(p) ==
    {FaceDataQueue(PipelineName(p)), PhoneDataQueue(PipelineName(p))}

\* C5: an envelope the dispatcher publishes for pipeline p goes to no queue
\* other than p's face_data and phone_data queues, and to both of them once
\* they are declared: the routing key of the publish is the binding key of
\* both queues.
C5_RoutedToOwnQueues ==
    d_last.published =>
        /\ d_last.to \subseteq InputQueues(d_last.before)
        /\ (InputQueues(d_last.before) \subseteq d_last.declared
              => d_last.to = InputQueues(d_last.before))
        /\ \A b \in bindings :
              b[1] \in InputQueues(d_last.before) => b[2] = d_last.key

\* An envelope was delivered to both queues of its pipeline while the queues
\* of another pipeline were declared too.
C5_Witness ==
    /\ d_last.published
    /\ d_last.to = InputQueues(d_last.before)
    /\ Cardinality(d_last.to) = 2
    /\ \E q \in d_last.declared : q \notin InputQueues(d_last.before)

(***************************************************************************)
(*                      Claims on the pipeline worker                      *)
(***************************************************************************)
\* The number of verdicts for envelope e in a results queue.
VerdictsFor(results, e) ==
    Cardinality({i \in 1..Len(results) : results[i].envelope = e})

\* C1: for every envelope routed to the pipeline the worker publishes exactly
\* two verdicts, one on face_pipeline_results and one on phone_pipeline_results.
\* Stated on finite runs: once the worker has acknowledged both deliveries of
\* an envelope, nothing more will happen for it, so both verdicts are there.
C1_TwoVerdictsPerEnvelope ==
    \A e \in Envelopes :
        (w_fate[e]["face"] = "acked" /\ w_fate[e]["phone"] = "acked")
        => /\ VerdictsFor(face_pipeline_results, e) = 1
           /\ VerdictsFor(phone_pipeline_results, e) = 1

\* The results queue of a branch.
ResultsOf(b) ==
    IF b = "face" THEN face_pipeline_results ELSE phone_pipeline_results

\* C14: whenever a branch handler fails on an envelope (the frame cannot be
\* hydrated, the model raises, or the publish raises) it still publishes a
\* verdict for that envelope that is marked as a failure.  Stated for the
\* deliveries the worker has acknowledged, for which nothing more will happen.
C14_FailureVerdict ==
    \A f \in w_failed :
        w_fate[f[1]][f[2]] = "acked" =>
            \E i \in 1..Len(ResultsOf(f[2])) :
                /\ ResultsOf(f[2])[i].envelope = f[1]
                /\ ResultsOf(f[2])[i].processing_error

(***************************************************************************)
(*                      Claims on the fuser                                *)
(***************************************************************************)
\* The rules of the claim, first match first.
FaceRules(v) ==
    IF v.face_bbox = NoneValue
    THEN ActionReason(ACTION_LOCK_SCREEN, REASON_NO_FACE)
    ELSE IF v.check_spoof = PyTrue
    THEN ActionReason(ACTION_SIGN_OUT, REASON_SPOOF_IMAGE)
    ELSE IF v.check_client = PyFalse
    THEN ActionReason(ACTION_LOCK_SCREEN, REASON_WRONG_USER)
    ELSE ActionReason(NO_ACTION, EMPTY_REASON)

\* The messages the last handled verdict put on a queue.
OfLast(queue) == {i \in 1..Len(queue) : queue[i].of = f_last.id}

C7_ActionsPerVerdict ==
    f_last.settled = "ack" =>
        /\ Cardinality(OfLast(actions)) <= 1
        /\ (f_last.verdict.branch = "phone"
              /\ f_last.verdict.phone_bbox = NoneValue
            => OfLast(actions) = {})
        /\ (f_last.verdict.branch = "phone" =>
              \A i \in OfLast(actions) :
                 /\ actions[i].action = ACTION_SIGN_OUT
                 /\ actions[i].reason = REASON_PHONE_DETECTION)
        /\ (f_last.verdict.has_names /\ f_last.ok_1 =>
              /\ (f_last.verdict.branch = "face"
                    => Cardinality(OfLast(actions)) = 1)
              /\ (f_last.verdict.branch = "phone"
                    => (Cardinality(OfLast(actions)) = 1
                          <=> f_last.verdict.phone_bbox # NoneValue)))

\* A face verdict of the genuine user was handled and its NO_ACTION message
\* is on the actions queue.
C7_Witness ==
    /\ f_last.settled = "ack"
    /\ f_last.verdict.branch = "face"
    /\ \E i \in OfLast(actions) : actions[i].action = NO_ACTION

\* C8: a verdict puts at most one message on saved_actions, one if and only if
\* the action derived from it is not NO_ACTION, and only after its message on
\* the actions queue.  (The "if" for a verdict that carries client_name and
\* send_time, while the broker accepts both publishes.)
C8_SavedPerVerdict ==
    f_last.settled = "ack" =>
        /\ Cardinality(OfLast(saved_actions)) <= 1
        /\ (OfLast(saved_actions) # {} =>
              /\ f_last.action_result.action # NO_ACTION
              /\ f_last.order = <<"actions", "saved_actions">>
              /\ Cardinality(OfLast(actions)) = 1)
        /\ (f_last.verdict.has_names /\ f_last.ok_1 /\ f_last.ok_2 =>
              (Cardinality(OfLast(saved_actions)) = 1
                 <=> f_last.action_result.action # NO_ACTION))

\* A wrong-user face verdict was handled: its action, then its saved action.
C8_Witness ==
    /\ f_last.settled = "ack"
    /\ f_last.verdict.branch = "face"
    /\ f_last.action_result = ActionReason(ACTION_LOCK_SCREEN, REASON_WRONG_USER)
    /\ f_last.order = <<"actions", "saved_actions">>
    /\ OfLast(saved_actions) # {}

(***************************************************************************)
(*                     Claims about the gateway                            *)
(***************************************************************************)
\* C9: while a session registered as name n is live, no frame that a second
\* connection sends as n is enqueued to clients_data.  Every payload records
\* whether, when it was published, ws held n for another open connection.
C9_OneSessionPerName ==
    \A i \in 1..Len(clients_data) : ~clients_data[i].second

PublishedFrames == {clients_data[i].frame : i \in 1..Len(clients_data)}

\* C10: the server closes a socket with code 4003 only when the rate limiter
\* denied the frame the connection was handling, and it does so for every
\* denied frame whose peer still takes the error message; the message sent
\* before the close is {ERROR, RATE_LIMIT_EXCEEDED}, and a denied frame is
\* neither stored nor published.
C10_RateLimitClose ==
    \A c \in Conns :
        /\ gw_conn[c].close_code = CLOSE_RATE_LIMIT
              => /\ gw_last[c].denied
                 /\ gw_conn[c].state = "closed"
                 /\ gw_last[c].sent =
                       <<ActionReason(ACTION_ERROR, REASON_RATE_LIMIT_EXCEEDED)>>
        /\ gw_last[c].denied
              => /\ gw_last[c].frame \notin gw_store
                 /\ gw_last[c].frame \notin PublishedFrames
                 /\ gw_conn[c].state = "closed"
                 /\ gw_last[c].peer_open
                       => gw_conn[c].close_code = CLOSE_RATE_LIMIT

\* A connection that stored and published a frame, then had the next frame
\* denied and was closed with 4003.
C10_Witness ==
    \E c \in Conns :
        /\ gw_conn[c].close_code = CLOSE_RATE_LIMIT
        /\ gw_last[c].denied
        /\ \E i \in 1..Len(clients_data) :
              /\ clients_data[i].conn = c
              /\ clients_data[i].frame < gw_last[c].frame

\* C11: a frame whose client_name is in paused_clients of the status store
\* when the gateway receives it (store_paused, store_blocked of gw_last: the
\* lists of the store at that moment, the iteration's read having succeeded) is answered with WARNING/PAUSED, is not
\* published and leaves the session open; one whose client_name is in
\* blocked_clients is answered with ERROR/BLOCKED, is not published and ends
\* the session (the peer taking the answer, the store having been readable).
C11_PausedBlockedAtReceipt ==
    \A c \in Conns :
        /\ (gw_last[c].store_paused /\ gw_last[c].peer_open) =>
              /\ gw_last[c].sent =
                    <<ActionReason(ACTION_WARNING, REASON_PAUSED_CLIENT)>>
              /\ gw_last[c].frame \notin PublishedFrames
        /\ (gw_last[c].store_blocked /\ gw_last[c].peer_open) =>
              /\ gw_last[c].sent =
                    <<ActionReason(ACTION_ERROR, REASON_BLOCKED_CLIENT)>>
              /\ gw_last[c].frame \notin PublishedFrames
              /\ gw_conn[c].state = "closed"

\* C12: every envelope on clients_data carries the image_object_key of an
\* object that store_frame wrote to the object store before the publish; a
\* frame whose store write failed closes the session with code 1011 and has no
\* envelope on clients_data.
C12_StoredBeforePublished ==
    /\ \A i \in 1..Len(clients_data) :
          /\ clients_data[i].image_object_key = clients_data[i].frame
          /\ clients_data[i].image_object_key \in gw_store
    /\ \A c \in Conns :
          /\ gw_last[c].store_failed =>
                /\ gw_conn[c].state = "closed"
                /\ gw_conn[c].close_code = CLOSE_INTERNAL_ERROR
                /\ gw_last[c].frame \notin gw_store
                /\ gw_last[c].frame \notin PublishedFrames
          /\ gw_conn[c].close_code = CLOSE_INTERNAL_ERROR
                => gw_last[c].store_failed

\* A session published one frame and was closed with 1011 on the next, whose
\* store write failed.
C12_Witness ==
    \E c \in Conns :
        /\ gw_last[c].store_failed
        /\ gw_conn[c].close_code = CLOSE_INTERNAL_ERROR
        /\ \E i \in 1..Len(clients_data) :
              /\ clients_data[i].conn = c
              /\ clients_data[i].image_object_key \in gw_store

\* The ids of the actions still in the actions queue.
QueuedActions == {gw_actions[i].id : i \in 1..Len(gw_actions)}

WriterIdle == sa_consumed = Len(saved_actions) /\ save_action_queue = <<>>

\* C15: every verdict whose action is not NO_ACTION gets an annotated snapshot
\* persisted by the saved-action writer, in the object store or in the local
\* directory, whichever of the frame's face and phone verdicts the fuser
\* handles first.  (On finite runs: once the writer has taken every message of
\* saved_actions, each message of a verdict that names the frame, handled
\* while the store answered the fetch, has been persisted.)
C15_SnapshotPersisted ==
    WriterIdle =>
        \A i \in 1..Len(saved_actions) :
            (/\ saved_actions[i].image_object_key = FrameKey
             /\ saved_actions[i].fetch_ok)
            => saved_actions[i].of \in sa_saved

\* C16: two deliveries of the same branch verdict to the fuser (the verdict of
\* one branch on one frame) compute the same saved-action object key, so the
\* second overwrites the object of the first.  (For two deliveries handled
\* while the store answered the fetch.)
C16_SameKeyOnRedelivery ==
    \A i, j \in 1..Len(saved_actions) :
        (/\ i < j
         /\ saved_actions[i].branch = saved_actions[j].branch
         /\ saved_actions[i].action = saved_actions[j].action
         /\ saved_actions[i].reason = saved_actions[j].reason
         /\ saved_actions[i].image_object_key = FrameKey
         /\ saved_actions[j].image_object_key = FrameKey
         /\ saved_actions[i].fetch_ok /\ saved_actions[j].fetch_ok)
        => /\ saved_actions[i].action_image_object_key
                = saved_actions[j].action_image_object_key
           /\ (WriterIdle => Cardinality(action_objects) <= 1)

(***************************************************************************)
(*                      Claims on the RateLimiter's life cycle             *)
(***************************************************************************)
\* C17: once shutdown() has begun, every allowRequest call that starts
\* afterwards returns False, for every client id.
C17_DenyAfterShutdown ==
    \A t \in callers :
        rl_obs[t].stopping => rl_obs[t].ret \in {"none", "deny"}

\* An allowRequest call for client_id is in progress.
InFlight(client_id) ==
    \E t \in callers : rl[t].pc # "idle" /\ rl[t].client_id = client_id

\* client_id has an entry in one of the three maps.
InMaps(client_id) ==
    \/ HasKey(client_counts, client_id)
    \/ HasKey(client_window_start, client_id)
    \/ HasKey(client_last_seen, client_id)

\* now - max(window_start, last_seen) >= window_size for an entry of the maps
StaleEntry(client_id) ==
    /\ InMaps(client_id)
    /\ LET win_start == DictGet(client_window_start, client_id, 0)
           ls == DictGet(client_last_seen, client_id, win_start)
       IN  now - Max2(win_start, ls) >= window_size

\* C18: an entry that is stale, of a client with no request in progress, is
\* eventually removed from the three maps by the sweep, unless the client
\* makes a further request or the limiter is shut down.
C18_StaleEntryRemoved ==
    \A client_id \in RLIds :
        (StaleEntry(client_id) /\ ~InFlight(client_id))
            ~> (~InMaps(client_id) \/ InFlight(client_id) \/ cleanup_stop)

\* A stale entry was removed by the sweep while the limiter was running.
C18_Witness ==
    /\ ~cleanup_stop
    /\ sw.pc = "scan"
    /\ sw.current_time = WindowSize + MaxTime
    /\ \E a \in admitted : ~InMaps(a[1]) /\ ~InFlight(a[1])

\* C19: a call of shutdown() sets the stop flag, the sweep loop sees it at its
\* next wake and exits, the executor is shut down and shutdown() returns; a
\* second call returns as well.
C19_ShutdownReturns ==
    /\ [](sd.pc # "idle" => cleanup_stop)
    /\ [](sd.returned > 0 =>
            cleanup_stop /\ executor_shutdown /\ sw.pc = "exited")
    /\ \A n \in 0..(MaxShutdowns - 1) :
          (sd.pc # "idle" /\ sd.returned = n) ~>
              (sd.pc = "idle" /\ sd.returned = n + 1)

\* shutdown() was called twice and returned twice.
C19_Witness ==
    /\ sd = [pc |-> "idle", returned |-> MaxShutdowns]
    /\ sw.pc = "exited"

(***************************************************************************)
(*                      Claims on the RateLimiterManager                   *)
(***************************************************************************)
\* C20: from the first successful get_instance(cls, config) to the next
\* shutdown(), every get_instance call, with or without arguments, returns the
\* same manager; after a shutdown(), get_instance(cls, config) makes a new
\* manager, distinct from every earlier one, with a limiter of its own that is
\* not shut down, and get_instance() without arguments fails.
C20_SingletonUntilShutdown ==
    /\ Cardinality(m_since) <= 1
    /\ m_last.op = "get_instance" =>
          /\ m_last.since # {} =>
                m_last.raised = "none" /\ m_last.since = {m_last.ret}
          /\ (m_last.since = {} /\ m_last.has_cls /\ m_last.has_config) =>
                /\ m_last.raised = "none"
                /\ m_last.ret > m_last.managers
                /\ m_rate_limiter[m_last.ret] > m_last.limiters
                /\ m_rate_limiter[m_last.ret] \notin m_stopped
          /\ (m_last.since = {} /\ ~(m_last.has_cls /\ m_last.has_config)) =>
                m_last.raised = "ValueError" /\ m_since = {}

\* After a shutdown, get_instance(cls, config) returned a second manager.
C20_Witness ==
    /\ m_last.op = "get_instance"
    /\ m_last.since = {}
    /\ m_last.has_cls /\ m_last.has_config
    /\ m_last.ret = 2
    /\ m_stopped = {1}

(***************************************************************************)
(*                      Claims on the reference embeddings                 *)
(***************************************************************************)
\* C21: _get_reference_embedding returns the cached embedding if and only if
\* an entry exists whose recorded mtime is >= the image's current mtime; with
\* an unchanged image a repeated call returns the same vector without
\* computing; after the image's mtime has increased the next call computes
\* again and does not return the older vector.
C21_CacheFollowsMtime ==
    ref_last.n > 0 =>
        /\ ref_last.hit <=>
              (/\ ref_last.cached_version # NoVersion
               /\ ref_last.cached_version >= ref_last.current_version)
        /\ ref_last.hit => ref_last.ret = ref_last.cached /\ ~ref_last.computed
        /\ (/\ ref_last.cached_version # NoVersion
            /\ ref_last.cached_version < ref_last.current_version
            /\ ref_last.ret # NoVector)
           => ref_last.computed /\ ref_last.ret # ref_last.cached

(***************************************************************************)
(*                      Claims on the admin API                            *)
(***************************************************************************)
\* The list a name is in: "both" when it is in the two of them
MembershipOf(username) ==
    IF /\ username \in clients_status.paused_clients
       /\ username \in clients_status.blocked_clients THEN "both"
    ELSE IF username \in clients_status.paused_clients THEN "pause"
    ELSE IF username \in clients_status.blocked_clients THEN "block"
    ELSE "normal"

\* C22: after any sequence of status updates a name is in at most one of
\* paused_clients and blocked_clients, and the list it is in is the one of the
\* most recent successful update for it (none for normal); an update asking
\* for the status the name already has changes nothing and reports failure.
C22_StatusFollowsLastUpdate ==
    /\ \A username \in ApiUserNames :
          MembershipOf(username) = api_recent[username]
    /\ (api_last.n > 0 /\ api_last.code = 200
            /\ api_last.prev_status = api_last.status)
       => ~api_last.success /\ clients_status = api_last.before

\* A paused name was blocked while the other name stays paused.
C22_Witness ==
    /\ api_last.success
    /\ api_last.prev_status = "pause"
    /\ api_last.status = "block"
    /\ api_last.username = "bob"
    /\ api_last.username \in api_last.before.paused_clients
    /\ MembershipOf("alice") = "pause"

(***************************************************************************)
(*                      Claims on the times of the actions                 *)
(***************************************************************************)
\* C23: every action sent to a client over its WebSocket carries a send_time
\* that is at most its finish_time, and a branch verdict of that client was
\* published before it.
C23_ActionAfterVerdict ==
    \A k \in 1..Len(t_emitted) :
        /\ t_emitted[k].has_times
        /\ t_emitted[k].send_time <= t_emitted[k].finish_time
        /\ \E j \in 1..Len(t_verdicts) :
              t_verdicts[j].client_name = t_emitted[k].client_name

(***************************************************************************)
(*                      Claims on the log cleanup worker                   *)
(***************************************************************************)
\* A log file older than the retention period
StaleLog(f) ==
    /\ log_files[f].exists
    /\ log_time - log_files[f].mtime > RetentionSeconds

C25_FrameKeptUntilFused == f_handled < 2 => FrameKey \in frames

(***************************************************************************)
(*                      Claims on concurrent calls of the RateLimiter      *)
(***************************************************************************)
\* The clock values of the admitted calls of an id
AdmissionTimes(c) == {a[2] : a \in {x \in admitted : x[1] = c}}

\* C26: concurrent allowRequest calls for one id leave the limiter as one of
\* their sequential orders would; in particular every admitted call raises the
\* id's count by one.  (Once no call is in flight, an id whose admitted calls
\* all lie within one window of each other has a count of at least the number
\* of their distinct clock values, as it has after any sequential order.)
C26_CallsSerialize ==
    (\A t \in callers : rl[t].pc = "idle") =>
        \A c \in RLIds :
            (/\ AdmissionTimes(c) # {}
             /\ \A u, v \in AdmissionTimes(c) : u - v < window_size)
            => /\ HasKey(client_counts, c)
               /\ client_counts[c] >= Cardinality(AdmissionTimes(c))

\* The maps that hold an entry for an id
MapsHolding(c) ==
    {m \in {"counts", "window_start", "last_seen"} :
        \/ m = "counts" /\ HasKey(client_counts, c)
        \/ m = "window_start" /\ HasKey(client_window_start, c)
        \/ m = "last_seen" /\ HasKey(client_last_seen, c)}

\* C27: allowRequest and the sweep change the three maps atomically per id.
\* While no call is in flight and the sweep is between two ids, every id is in
\* all three maps or in none, and an id admitted less than window_size ago is
\* in all three: the sweep has not removed an entry that a call has just
\* refreshed.
C27_MapsAtomicPerClient ==
    ((\A t \in callers : rl[t].pc = "idle") /\ sw.pc \in {"wait", "scan"}) =>
        \A c \in RLIds :
            /\ Cardinality(MapsHolding(c)) \in {0, 3}
            /\ (\E a \in admitted : a[1] = c /\ now - a[2] < window_size)
               => Cardinality(MapsHolding(c)) = 3

(***************************************************************************)
(*                      Claims on the worker's acknowledgements            *)
(***************************************************************************)
\* C28: the worker acknowledges an envelope of a branch only after the
\* verdict of that envelope has been published to the branch's results queue;
\* when the publish fails the envelope is not acknowledged.
C28_AckAfterPublish ==
    \A e \in Envelopes, b \in Branches :
        w_fate[e][b] = "acked" => VerdictsFor(ResultsOf(b), e) >= 1

(***************************************************************************)
(*                      Claims on the order of the verdicts                *)
(***************************************************************************)
\* The place of an envelope in a sequence of envelopes (0: not in it)
PlaceIn(seq, e) ==
    IF \E i \in 1..Len(seq) : seq[i] = e
    THEN CHOOSE i \in 1..Len(seq) : seq[i] = e
    ELSE 0

\* C29: within a branch the verdicts are published in the order in which the
\* branch's envelopes were delivered, and no two envelopes of one branch are
\* in the executor (waiting or running) at the same time, although the two
\* branches share its two threads.
C29_BranchOrderKept ==
    \A b \in Branches :
        /\ Cardinality({t \in x_running : t[1] = b}) <= 1
        /\ Cardinality({t \in x_unacked : t[1] = b}) <= 1
        /\ \A i, j \in 1..Len(x_published[b]) :
              i < j => /\ PlaceIn(x_delivered[b], x_published[b][i]) > 0
                       /\ PlaceIn(x_delivered[b], x_published[b][i])
                            < PlaceIn(x_delivered[b], x_published[b][j])

\* Both threads of the executor are busy, one with each branch, after each
\* branch has published a verdict.
C29_Witness ==
    /\ Cardinality(x_running) = 2
    /\ Len(x_published["face"]) >= 1
    /\ Len(x_published["phone"]) >= 1

(***************************************************************************)
(*                      Claims on the published payloads                   *)
(***************************************************************************)
\* The payloads published so far
PublishedPayloads ==
    {p_clients_data[i] : i \in 1..Len(p_clients_data)}
        \cup {p_face_results[i] : i \in 1..Len(p_face_results)}
        \cup {p_phone_results[i] : i \in 1..Len(p_phone_results)}

\* C30: no payload published by the gateway or by a worker (envelope, face
\* verdict, phone verdict) holds a pixel matrix: every key is absent or has a
\* value that is not an image.
C30_NoPixelsPublished ==
    \A payload \in PublishedPayloads :
        \A k \in DOMAIN payload : payload[k] # Pixels

(***************************************************************************)
(*                      Claims on the action consumer's failures           *)
(***************************************************************************)
\* C31: an action whose client_name has a socket in ws but whose send on that
\* socket failed is requeued, never acknowledged: it is still in the actions
\* queue.
C31_FailedSendRequeued ==
    \A id \in 1..a_published :
        a_log[id].outcome = "send_failed" => id \in QueuedActions

(***************************************************************************)
(*                      Claims on the sessions of the gateway              *)
(***************************************************************************)
\* The names ws holds the connection c under.
NamesOf(c) == {n \in DOMAIN ws : ws[n] = c}

\* C32: a session keeps the client name it was admitted under: the payloads
\* published to clients_data for one connection all carry the same
\* client_name, and ws never holds one connection under two names.
C32_OneNamePerSession ==
    /\ \A i, j \in 1..Len(clients_data) :
          clients_data[i].conn = clients_data[j].conn
             => clients_data[i].client_name = clients_data[j].client_name
    /\ \A c \in Conns : Cardinality(NamesOf(c)) <= 1

\* The names whose entry in ws belongs to a connection that the step leaves
\* open.
LiveNames == {n \in DOMAIN ws : gw_conn'[ws[n]].state = "open"}

\* C33: the entries of a registered session that stays open are not removed
\* by the end of another connection: the name is still in ws for the same
\* connection, in registered_clients and in activate_clients after the step.
C33_CleanupOwnSession ==
    [][\A n \in LiveNames :
          /\ HasKey(ws', n) /\ ws'[n] = ws[n]
          /\ n \in registered_clients => n \in registered_clients'
          /\ n \in activate_clients => n \in activate_clients']_vars

\* The connections inside the receive loop of handle_connection.
InLoop == {c \in Conns : gw_conn[c].state = "open"}

\* C34: the permits of connection_semaphore and the sessions inside the
\* receive loop always add up to the size the semaphore was created with: a
\* session takes one permit when it enters and gives it back exactly once
\* when it leaves, whatever the exit path, and the semaphore never goes
\* below zero, so the sessions in the loop never outnumber its size.
C34_PermitsBalanced ==
    /\ [](connection_semaphore >= 0)
    /\ [][connection_semaphore' + Cardinality(InLoop')
             = connection_semaphore + Cardinality(InLoop)]_vars

\* Every connection has ended, one of them closed after a storage failure,
\* and all the permits are back.
C34_Witness ==
    /\ \A c \in Conns : gw_conn[c].state = "closed"
    /\ \E c \in Conns : gw_conn[c].close_code = CLOSE_INTERNAL_ERROR
    /\ connection_semaphore = MaxConns

\* C35: the actions of one client are sent on its socket in the order the
\* fuser published them, requeued ones included: of two actions sent to the
\* same client_name the one sent first was published first.
C35_ActionsInPublishOrder ==
    \A i, j \in 1..Len(o_sent) :
        (i < j /\ o_sent[i].client_name = o_sent[j].client_name)
            => o_sent[i].id < o_sent[j].id

(***************************************************************************)
(*                      Claims on the consumer callbacks                   *)
(***************************************************************************)
\* C36: whatever the handler did (returned, raised RequeueMessage, raised
\* another exception, or the payload did not load), each of the three
\* callbacks settles the message exactly once, with ack, nack with requeue
\* or nack without requeue, and lets no exception out, as long as the
\* channel takes the call; no message is ever settled twice, and a message
\* whose handler still runs is not settled.
C36_SettledExactlyOnce ==
    \A i \in 1..Len(cb_msgs) :
        /\ Len(cb_msgs[i].settles) <= 1
        /\ cb_msgs[i].stage # "settled" => cb_msgs[i].settles = <<>>
        /\ (cb_msgs[i].stage = "settled" /\ cb_msgs[i].channel_ok) =>
              /\ Len(cb_msgs[i].settles) = 1
              /\ cb_msgs[i].settles[1] \in {Ack, NackRequeue, NackDrop}
              /\ ~cb_msgs[i].escaped

\* Each callback has settled a message: the asynchronous one after
\* RequeueMessage, the executor's after another exception, the synchronous
\* one after a payload that did not load.
C36_Witness ==
    /\ \E i \in 1..Len(cb_msgs) :
          /\ cb_msgs[i].wrapper = "async" /\ cb_msgs[i].outcome = "requeue"
          /\ cb_msgs[i].settles = <<NackRequeue>>
    /\ \E i \in 1..Len(cb_msgs) :
          /\ cb_msgs[i].wrapper = "executor" /\ cb_msgs[i].outcome = "exception"
          /\ cb_msgs[i].settles = <<NackDrop>>
    /\ \E i \in 1..Len(cb_msgs) :
          /\ cb_msgs[i].wrapper = "sync" /\ cb_msgs[i].outcome = UnpicklingError
          /\ cb_msgs[i].settles = <<NackDrop>>

(***************************************************************************)
(*                      Claims on publish_data                             *)
(***************************************************************************)
\* C37: publish_data makes at most max_retries attempts; it returns True
\* only at the one attempt that published, all the attempts before it
\* having failed; every retry starts without a producer channel, so it
\* reconnects; it raises only after a failed attempt, the last of the
\* max_retries ones unless the error is one it does not retry; and it
\* returns False only when max_retries allows no attempt.
C37_BoundedRetries ==
    /\ pub.tried <= pub.max_retries
    /\ pub.tried = pub.failed + pub.published
    /\ pub.published = 1 <=> pub.result = PyTrue
    /\ pub.published <= 1
    /\ ~pub.stale_retry
    /\ pub.pc = "loop" => pub.tried = pub.attempt /\ pub.published = 0
    /\ pub.result = "raised" =>
          /\ pub.failed >= 1
          /\ pub.tried = pub.max_retries \/ pub.class = "sync"
    /\ pub.result = PyFalse => pub.max_retries = 0

\* A call returned True at its last attempt, after reconnecting for it.
C37_Witness ==
    /\ pub.result = PyTrue
    /\ pub.tried = MaxRetries
    /\ pub.failed = MaxRetries - 1
    /\ pub.connects >= 1

(***************************************************************************)
(*                      Claims on the writers of Clients_status            *)
(***************************************************************************)
\* C38: an admin update for username u changes only u's membership in
\* paused_clients and blocked_clients: the write leaves every other name's
\* membership in the two lists, active_clients and connecting_internet_error
\* as they were in the hash just before it.
C38_AdminWritesOwnUser ==
    adm_last.writer = "admin" =>
        /\ adm_hash.active_clients = adm_last.before.active_clients
        /\ adm_hash.connecting_internet_error
              = adm_last.before.connecting_internet_error
        /\ adm_hash.paused_clients \ {adm_last.username}
              = adm_last.before.paused_clients \ {adm_last.username}
        /\ adm_hash.blocked_clients \ {adm_last.username}
              = adm_last.before.blocked_clients \ {adm_last.username}

(***************************************************************************)
(*                      Claims on the threads and the supervisors          *)
(***************************************************************************)
\* C39: thread_started is never left True for a handler whose thread has
\* finished: once run() has returned and no Start_thread is under way,
\* is_started() is False, so the monitor loop restarts the handler.
C39_FinishedNotStarted ==
    \A h \in Handlers :
        (th[h].handler.thread = "finished" /\ th_main # h)
            => ~th[h].handler.thread_started

\* C40: the supervising loop of a service never exits, and a child found
\* dead is running again later.
C40_SupervisorRestarts ==
    \A s \in Services :
        /\ [](sup[s].pc # "exited")
        /\ (sup[s].pc = "monitoring" /\ ~sup[s].alive) ~> sup[s].alive

====
